---- MODULE Spec2Model ----
(***************************************************************************)
(* A model of the entity-resolution and flight-simulation logic of         *)
(* prun_universe_map (src/src/components/DataPointOverlay.jsx).            *)
(*                                                                         *)
(* JavaScript strings are modelled as sequences of one-character strings,  *)
(* so that trimming, case conversion and the regular expressions of the    *)
(* source are computed, not assumed.  The JavaScript value null/undefined  *)
(* of a string-valued field is the one-element sequence Null.              *)
(***************************************************************************)
EXTENDS Integers, Sequences, FiniteSets, TLC

VARIABLES
    \* ---- SystemResolver (resolveSystemId, systemLookups)
    systemNames,      \* useDataPoints().systemNames: sequence of <<systemId, name>>
    universeData,     \* GraphContext.universeData: sequence of <<systemId, <<entries>>>>
    graphNodes,       \* ids known to graph.systems / graph.nodes
    systemLookups,    \* the memoised [byName, byNaturalId] tables
    candidate,        \* the last value handed to resolveSystemId
    resolved          \* what resolveSystemId returned for it

resolveVars == <<systemNames, universeData, graphNodes, systemLookups, candidate, resolved>>

VARIABLES
    \* ---- LocationSelector (selectDisplayLocation)
    candidates,       \* the argument list of selectDisplayLocation
    selected          \* <<called, result>>: whether it was called, and what it returned

selectVars == <<candidates, selected>>

VARIABLES
    \* ---- StorageRecordSelector and ShipLoadAggregator (storageIndex, shipLoadInfo)
    storageData,      \* GraphContext.storageData: the list of storage records
    ships,            \* GraphContext.ships: the list of ship records
    storageIndex,     \* the memoised index: normalized key -> preferred record
    shipLoadInfo,     \* the memoised map: normalized key -> ShipLoadInfo
    storageRecordScoreCache,  \* the module's WeakMap: live record -> its evaluation
    scoreCacheWrites, \* the records the latest build called storageRecordScoreCache.set for
    refetched         \* the latest setter call delivered a snapshot equal to the one before

storageVars == <<storageData, ships, storageIndex, shipLoadInfo, storageRecordScoreCache,
                 scoreCacheWrites, refetched>>

VARIABLES
    \* ---- ShipmentContractMatcher (shipmentContractsByItemId)
    contracts,                  \* GraphContext.contracts
    shipmentContractsByItemId   \* the memoised index: item key -> condition entries

contractVars == <<contracts, shipmentContractsByItemId>>

VARIABLES
    \* ---- FlightPositionInterpolator (interpolateShipPosition)
    flightShip,       \* the ship argument
    segmentPairs,     \* the segments argument: the segment pairs of the flight
    activeFlight,     \* the flightContext argument
    now,              \* Date.now() at the latest call
    position          \* what the latest call returned

interpVars == <<flightShip, segmentPairs, activeFlight, now, position>>

VARIABLES
    \* ---- LocationDetailExtractor (extractLocationDetails)
    planetData,       \* GraphContext.planetData, the planets of all systems in a row
    planetLookups,    \* the memoised lookups: byId, byNaturalId
    lines,            \* the argument of the latest call
    location          \* what the latest call returned

extractVars == <<planetData, planetLookups, lines, location>>

VARIABLES
    \* ---- renderOverlay (the flights loop and the ships loop of one pass)
    flights,            \* GraphContext.flights: the list of flight records
    flightDiagnostics,  \* the diagnostics the pass has pushed
    activeShipIds,      \* the ids of the ships the pass found in flight
    flightPositions,    \* interpolatedPosition of each active flight, in order
    idleShipIds,        \* the keys of the ships the pass handed on as idle
    renderError,        \* the exception that ended the pass, "none" without one
    timedActiveShipIds, \* activeShipIds as the older copy of the component fills it
    markers             \* the ship markers the pass drew: the ship and the kind of marker

renderVars == <<flights, flightDiagnostics, activeShipIds, flightPositions, idleShipIds,
                renderError, timedActiveShipIds, markers>>

VARIABLES
    \* ---- GraphProvider (GraphContext.js): the data-fetch effect and the
    \* Firestore snapshot effect
    graphCopy,            \* the copy of GraphContext.js that is built: 1, 2 or 3
    mounted,              \* the provider is mounted
    contextAuthToken,     \* authToken of useContext(AuthContext) at the latest render
    contextUserName,      \* userName of useContext(AuthContext) at the latest render
    effectRuns,           \* how often the data-fetch effect has run
    isMounted,            \* the runs of the effect whose isMounted is still true
    requests,             \* the requests in flight: [kind, run, user]
    handled,              \* the response handled last: its run, what had happened
                          \* since the request was sent, and whether it wrote
    providerShips,        \* the provider's ships state
    providerFlights,      \* the provider's flights state
    providerStorageData,  \* the provider's storageData state
    providerContracts,    \* the provider's contracts state
    contractSnapshot,     \* the provider's contractSnapshot state
    subscribed,           \* the onSnapshot listener is attached
    lastSnapshot          \* the contracts of the snapshot delivered last to the listener

providerVars == <<graphCopy, mounted, contextAuthToken, contextUserName, effectRuns, isMounted,
                  requests, handled, providerShips, providerFlights, providerStorageData,
                  providerContracts, contractSnapshot, subscribed, lastSnapshot>>

VARIABLES
    \* ---- the cloud functions (functions/index.js) that keep the contract
    \* snapshot document
    snapshotDocument,     \* snapshots/contracts: none, or its contracts array
    syncRuns,             \* updateContractsSnapshot of each trigger: where it stands and
                          \* what it has read
    lastMerge,            \* mergeContractsIntoSnapshot as the latest run called it:
                          \* arguments, the list before the cap, the result
    syncsStarted          \* how many runs have started

syncVars == <<snapshotDocument, syncRuns, lastMerge, syncsStarted>>

VARIABLES
    \* ---- AuthProvider (AuthContext.js, and its earlier copy)
    authCopy,             \* the copy that is built: "current" or "earlier"
    authToken,            \* the provider's authToken state
    userName,             \* the provider's userName state
    authStrategy,         \* the provider's authStrategy state (null in the earlier copy)
    authLoading,          \* the provider's authLoading state
    authError,            \* the provider's authError state
    localStorage,         \* the three keys the provider keeps in window.localStorage
    pendingLogin,         \* the call of login that awaits its response, if any
    lastAttempt,          \* the attempt that finished last: the call, what it met,
                          \* the token before, and what it threw
    attempts              \* how many attempts have started

authVars == <<authCopy, authToken, userName, authStrategy, authLoading, authError,
              localStorage, pendingLogin, lastAttempt, attempts>>

\* the providers around the map and the backend of the contract snapshot
contextVars == <<providerVars, syncVars, authVars>>

vars == <<resolveVars, selectVars, storageVars, contractVars, interpVars, extractVars,
          renderVars, contextVars>>

\* the variables an action of one component leaves alone
resolveOthers == <<selectVars, storageVars, contractVars, interpVars, extractVars, renderVars, contextVars>>
selectOthers == <<resolveVars, storageVars, contractVars, interpVars, extractVars, renderVars, contextVars>>
storageOthers == <<resolveVars, selectVars, interpVars, extractVars, renderVars, contextVars>>
contractOthers == storageOthers
interpOthers == <<resolveVars, selectVars, storageVars, contractVars, extractVars, renderVars, contextVars>>
extractOthers == <<selectVars, storageVars, contractVars, interpVars, renderVars, contextVars>>
renderOthers == <<resolveVars, selectVars, extractVars, flightShip, segmentPairs, activeFlight,
                  position, contextVars>>
providerOthers == <<resolveVars, selectVars, storageVars, contractVars, interpVars, extractVars,
                    renderVars, syncVars, authVars>>
syncOthers == <<resolveVars, selectVars, storageVars, contractVars, interpVars, extractVars,
                renderVars, providerVars, authVars>>
authOthers == <<resolveVars, selectVars, storageVars, contractVars, interpVars, extractVars,
                renderVars, providerVars, syncVars>>

-----------------------------------------------------------------------------
(* Strings *)

Null == <<"null">>

UpperLetters ==
    <<"A","B","C","D","E","F","G","H","I","J","K","L","M",
      "N","O","P","Q","R","S","T","U","V","W","X","Y","Z">>

LowerLetters ==
    <<"a","b","c","d","e","f","g","h","i","j","k","l","m",
      "n","o","p","q","r","s","t","u","v","w","x","y","z">>

Digits == {"0","1","2","3","4","5","6","7","8","9"}

IsUpper(c) == \E i \in 1..26 : UpperLetters[i] = c
IsLower(c) == \E i \in 1..26 : LowerLetters[i] = c
IsLetter(c) == IsUpper(c) \/ IsLower(c)
IsDigit(c) == c \in Digits
IsSpace(c) == c = " "
\* \w of a JavaScript regular expression
IsWordChar(c) == IsLetter(c) \/ IsDigit(c) \/ c = "_"

ToLowerChar(c) ==
    IF IsUpper(c) THEN LowerLetters[CHOOSE i \in 1..26 : UpperLetters[i] = c] ELSE c

ToUpperChar(c) ==
    IF IsLower(c) THEN UpperLetters[CHOOSE i \in 1..26 : LowerLetters[i] = c] ELSE c

\* String.prototype.toLowerCase / toUpperCase
toLowerCase(s) == [i \in 1..Len(s) |-> ToLowerChar(s[i])]
toUpperCase(s) == [i \in 1..Len(s) |-> ToUpperChar(s[i])]

RECURSIVE TrimLeft(_)
TrimLeft(s) == IF s # <<>> /\ IsSpace(Head(s)) THEN TrimLeft(Tail(s)) ELSE s

RECURSIVE TrimRight(_)
TrimRight(s) ==
    IF s # <<>> /\ IsSpace(s[Len(s)]) THEN TrimRight(SubSeq(s, 1, Len(s) - 1)) ELSE s

\* String.prototype.trim
trim(s) == TrimRight(TrimLeft(s))

\* replace(/\s+/g, ' ')
RECURSIVE CollapseSpaces(_)
CollapseSpaces(s) ==
    IF s = <<>> THEN <<>>
    ELSE IF IsSpace(Head(s))
         THEN <<" ">> \o CollapseSpaces(TrimLeft(s))
         ELSE <<Head(s)>> \o CollapseSpaces(Tail(s))

StationWord == <<"s","t","a","t","i","o","n">>

\* whether /\bstation\b/ matches s at position i (1-based)
StationAt(s, i) ==
    /\ i + 6 <= Len(s)
    /\ SubSeq(s, i, i + 6) = StationWord
    /\ (i = 1 \/ ~IsWordChar(s[i - 1]))
    /\ (i + 7 > Len(s) \/ ~IsWordChar(s[i + 7]))

\* replace(/\bstation\b/g, '')
RECURSIVE StripStationFrom(_, _)
StripStationFrom(s, i) ==
    IF i > Len(s) THEN <<>>
    ELSE IF StationAt(s, i) THEN StripStationFrom(s, i + 7)
         ELSE <<s[i]>> \o StripStationFrom(s, i + 1)

\* the characters replace(/[^a-z0-9\s-]/gi, '') keeps
IsCleanChar(c) == IsLetter(c) \/ IsDigit(c) \/ IsSpace(c) \/ c = "-"

\* resolveSystemId's cleanedName, from the normalized (trimmed, lower-cased) name
cleanName(normalizedName) ==
    trim(CollapseSpaces(SelectSeq(StripStationFrom(normalizedName, 1), IsCleanChar)))

IsCodeChar(c) == IsLetter(c) \/ IsDigit(c) \/ c = "-"

\* whether /\(([A-Za-z0-9\-]+)\)/ matches s with its "(" at i and its ")" at j
ParenAt(s, i, j) ==
    /\ s[i] = "("
    /\ s[j] = ")"
    /\ j > i + 1
    /\ \A k \in (i + 1)..(j - 1) : IsCodeChar(s[k])

HasParenMatch(s) == \E i, j \in 1..Len(s) : ParenAt(s, i, j)

\* id.match(/\(([A-Za-z0-9\-]+)\)/)[1]: the group of the leftmost match
parenMatch(s) ==
    LET i == CHOOSE a \in 1..Len(s) :
                 /\ \E b \in 1..Len(s) : ParenAt(s, a, b)
                 /\ \A a2 \in 1..(a - 1) : ~\E b \in 1..Len(s) : ParenAt(s, a2, b)
        j == CHOOSE b \in 1..Len(s) : ParenAt(s, i, b)
    IN  SubSeq(s, i + 1, j - 1)

-----------------------------------------------------------------------------
(* SystemResolver: systemLookups and resolveSystemId *)

\* a JavaScript Map as a function; Map.prototype.set
MapSet(m, k, v) == [x \in (DOMAIN m) \cup {k} |-> IF x = k THEN v ELSE m[x]]

EmptyMap == [x \in {} |-> Null]

\* truthiness of a string-valued field: neither null nor ''
Truthy(s) == s # Null /\ s # <<>>

\* the forEach over Object.entries(systemNames) of systemLookups
RECURSIVE ByNameFromSystemNames(_, _)
ByNameFromSystemNames(names, byName) ==
    IF names = <<>> THEN byName
    ELSE LET systemId == Head(names)[1]
             name == Head(names)[2]
         IN  IF systemId = <<>> \/ name = Null
             THEN ByNameFromSystemNames(Tail(names), byName)
             ELSE ByNameFromSystemNames(Tail(names),
                      MapSet(byName, toLowerCase(trim(name)), systemId))

\* the entries.forEach of one universeData key: returns <<byName, byNaturalId>>
RECURSIVE LookupsFromEntries(_, _, _)
LookupsFromEntries(systemId, entries, tables) ==
    IF entries = <<>> THEN tables
    ELSE LET entry == Head(entries)
             entryName == IF entry.Name # Null THEN trim(entry.Name) ELSE Null
             entryNaturalId == IF entry.NaturalId # Null THEN trim(entry.NaturalId) ELSE Null
             byName1 == IF Truthy(entryName)
                        THEN MapSet(tables[1], toLowerCase(entryName), systemId)
                        ELSE tables[1]
             byNat1 == IF Truthy(entryNaturalId)
                       THEN MapSet(tables[2], toUpperCase(entryNaturalId), systemId)
                       ELSE tables[2]
         IN  LookupsFromEntries(systemId, Tail(entries), <<byName1, byNat1>>)

\* the forEach over Object.entries(universeData) of systemLookups
RECURSIVE LookupsFromUniverse(_, _)
LookupsFromUniverse(universe, tables) ==
    IF universe = <<>> THEN tables
    ELSE LET systemId == Head(universe)[1]
             entries == Head(universe)[2]
         IN  IF systemId = <<>>
             THEN LookupsFromUniverse(Tail(universe), tables)
             ELSE LookupsFromUniverse(Tail(universe),
                      LookupsFromEntries(systemId, entries, tables))

\* the systemLookups memo
BuildSystemLookups(names, universe) ==
    LET tables == LookupsFromUniverse(universe,
                      <<ByNameFromSystemNames(names, EmptyMap), EmptyMap>>)
    IN  [byName |-> tables[1], byNaturalId |-> tables[2]]

\* ---- values that are not strings: a number is <<"number">> followed by its
\* digits, an object is <<"object">>, null is Null
NumberValue(digits) == <<"number">> \o digits
ObjectValue == <<"object">>

\* typeof value === 'string'
IsStringValue(value) == value = <<>> \/ value[1] \notin {"null", "number", "object"}

\* !value
Falsy(value) == value = Null \/ value = <<>> \/ value = NumberValue(<<"0">>)

\* the property key object[value] converts value to
PropertyKey(value) ==
    IF IsStringValue(value) THEN value
    ELSE IF value[1] = "number" THEN Tail(value)
    ELSE <<"[","o","b","j","e","c","t"," ","O","b","j","e","c","t","]">>

\* systemNames?.[id]: the name stored for id, Null when there is none
SystemNameOf(names, id) ==
    IF \E i \in 1..Len(names) : names[i][1] = id
    THEN names[CHOOSE i \in 1..Len(names) : names[i][1] = id][2]
    ELSE Null

\* the exact-id tests at the head of resolveSystemId
IsKnownSystemId(names, nodes, id) ==
    \/ Truthy(SystemNameOf(names, id))
    \/ id \in nodes

\* resolveSystemId with the name looked up as typed, not lower-cased
resolveSystemIdCaseSensitive(names, nodes, lookups, cand) ==
    LET id == IF cand = Null THEN Null ELSE trim(cand)
        cleanedName == cleanName(id)
    IN  IF ~Truthy(id) THEN Null
        ELSE IF IsKnownSystemId(names, nodes, id) THEN id
        ELSE IF id \in DOMAIN lookups.byName THEN lookups.byName[id]
        ELSE IF cleanedName # <<>> /\ cleanedName \in DOMAIN lookups.byName
             THEN lookups.byName[cleanedName]
        ELSE IF HasParenMatch(id)
                /\ toUpperCase(parenMatch(id)) \in DOMAIN lookups.byNaturalId
             THEN lookups.byNaturalId[toUpperCase(parenMatch(id))]
        ELSE IF id \in DOMAIN lookups.byNaturalId
             THEN lookups.byNaturalId[id]
        ELSE Null

\* resolveSystemId that consults the natural-id table before the name table
resolveSystemIdNaturalIdFirst(names, nodes, lookups, cand) ==
    LET id == IF IsStringValue(cand) THEN trim(cand) ELSE cand
        normalizedName == toLowerCase(id)
        cleanedName == cleanName(normalizedName)
        upperCandidate == toUpperCase(id)
    IN  IF Falsy(id) THEN Null
        ELSE IF IsKnownSystemId(names, nodes, PropertyKey(id)) THEN id
        ELSE IF ~IsStringValue(id) THEN Null
        ELSE IF upperCandidate \in DOMAIN lookups.byNaturalId
             THEN lookups.byNaturalId[upperCandidate]
        ELSE IF normalizedName \in DOMAIN lookups.byName
             THEN lookups.byName[normalizedName]
        ELSE IF cleanedName # <<>> /\ cleanedName \in DOMAIN lookups.byName
             THEN lookups.byName[cleanedName]
        ELSE IF HasParenMatch(id)
                /\ toUpperCase(parenMatch(id)) \in DOMAIN lookups.byNaturalId
             THEN lookups.byNaturalId[toUpperCase(parenMatch(id))]
        ELSE Null

resolveSystemId(names, nodes, lookups, cand) ==
    LET id == IF IsStringValue(cand) THEN trim(cand) ELSE cand
        normalizedName == toLowerCase(id)
        cleanedName == cleanName(normalizedName)
        upperCandidate == toUpperCase(id)
    IN  IF Falsy(id) THEN Null
        ELSE IF IsKnownSystemId(names, nodes, PropertyKey(id)) THEN id
        ELSE IF ~IsStringValue(id) THEN Null
        ELSE IF normalizedName \in DOMAIN lookups.byName
             THEN lookups.byName[normalizedName]
        ELSE IF cleanedName # <<>> /\ cleanedName \in DOMAIN lookups.byName
             THEN lookups.byName[cleanedName]
        ELSE IF HasParenMatch(id)
                /\ toUpperCase(parenMatch(id)) \in DOMAIN lookups.byNaturalId
             THEN lookups.byNaturalId[toUpperCase(parenMatch(id))]
        ELSE IF upperCandidate \in DOMAIN lookups.byNaturalId
             THEN lookups.byNaturalId[upperCandidate]
        ELSE Null

\* ---- the data the resolver is exercised on

SysId1 == <<"a","1">>
SysId2 == <<"b","2">>
SystemIds == {SysId1, SysId2}

\* display names: "Mo", and "B2", which differs from SysId2 by case only
SystemNamePool == {<<"M","o">>, <<"B","2">>}

\* names of universe entries carry surrounding blanks
EntryNamePool == {Null, <<"M","o"," ">>}

\* natural ids: "x-1", and "MO", which differs from the name "Mo" by case only
NaturalIdPool == {Null, <<"x","-","1">>, <<"M","O">>}

SystemNamesChoices ==
    LET Pairs == {<<id, n>> : id \in SystemIds, n \in SystemNamePool}
    IN  {<<>>} \cup {<<p>> : p \in Pairs}
        \cup {pq \in Pairs \X Pairs : pq[1][1] = SysId1 /\ pq[2][1] = SysId2}

UniverseEntries ==
    {e \in [Name : EntryNamePool, NaturalId : NaturalIdPool] :
        e.Name # Null \/ e.NaturalId # Null}

UniverseChoices ==
    {<<>>} \cup {<<<<id, <<e>>>>>> : id \in SystemIds, e \in UniverseEntries}
    \cup {<<<<SysId1, <<e1>>>>, <<SysId2, <<e2>>>>>> : e1 \in UniverseEntries, e2 \in UniverseEntries}

GraphChoices == {{}, {SysId1}}

\* the snapshots a refresh may deliver
SystemNamesRefresh ==
    {<<>>, <<<<SysId1, <<"M","o">>>>>>, <<<<SysId1, <<"B","2">>>>, <<SysId2, <<"M","o">>>>>>}

UniverseRefresh ==
    {<<>>,
     <<<<SysId2, <<[Name |-> Null, NaturalId |-> <<"x","-","1">>]>>>>>>,
     <<<<SysId1, <<[Name |-> <<"M","o"," ">>, NaturalId |-> <<"M","O">>]>>>>,
       <<SysId2, <<[Name |-> Null, NaturalId |-> <<"M","O">>]>>>>>>}

\* values handed to resolveSystemId
CandidatePool ==
    { Null, <<>>, <<" ">>,
      <<"a","1">>, <<"A","1">>, <<" ","a","1"," ">>,
      <<"b","2">>, <<"B","2">>,
      <<"M","o">>, <<"m","o">>, <<" ","M","O"," ">>,
      <<"x","-","1">>, <<"X","-","1"," ">>,
      <<"z","z">>,
      <<"M","o"," ","(","x","-","1",")">>,
      <<"Z","z"," ","(","X","-","1",")">>,
      <<"m","o"," ","s","t","a","t","i","o","n">>,
      <<"M","o","!">> }

\* a new systemNames object arrives: the systemLookups memo is rebuilt
SetSystemNames(names) ==
    /\ names # systemNames
    /\ systemNames' = names
    /\ systemLookups' = BuildSystemLookups(names, universeData)
    /\ candidate' = Null
    /\ resolved' = Null
    /\ UNCHANGED <<universeData, graphNodes, resolveOthers>>

\* a new universeData object arrives: the systemLookups memo is rebuilt
SetUniverseData(universe) ==
    /\ universe # universeData
    /\ universeData' = universe
    /\ systemLookups' = BuildSystemLookups(systemNames, universe)
    /\ candidate' = Null
    /\ resolved' = Null
    /\ UNCHANGED <<systemNames, graphNodes, resolveOthers>>

\* a new graph arrives
SetGraph(nodes) ==
    /\ nodes # graphNodes
    /\ graphNodes' = nodes
    /\ candidate' = Null
    /\ resolved' = Null
    /\ UNCHANGED <<systemNames, universeData, systemLookups, resolveOthers>>

\* one call of resolveSystemId
ResolveSystemId(cand) ==
    /\ candidate' = cand
    /\ resolved' = resolveSystemId(systemNames, graphNodes, systemLookups, cand)
    /\ UNCHANGED <<systemNames, universeData, graphNodes, systemLookups, resolveOthers>>

-----------------------------------------------------------------------------
(* LocationSelector: selectDisplayLocation *)

\* displayPriority: null
NoPriority == -1

\* a null / undefined candidate
NoDetail == [isNull |-> TRUE]

\* the first truthy value of a || chain over string fields, Null when there is none
RECURSIVE FirstTruthy(_)
FirstTruthy(values) ==
    IF values = <<>> THEN Null
    ELSE IF Truthy(Head(values)) THEN Head(values)
         ELSE FirstTruthy(Tail(values))

getCandidateLabel(c) ==
    IF c = NoDetail THEN <<>>
    ELSE LET label == FirstTruthy(<<c.displayName, c.stationName, c.planetName, c.systemName,
                                     c.systemNaturalId, c.stationNaturalId, c.planetNaturalId,
                                     c.systemId, c.stationId, c.planetId>>)
         IN  IF label = Null THEN <<>> ELSE trim(label)

isGenericLabel(c) ==
    LET label == toLowerCase(getCandidateLabel(c))
    IN  \/ label = <<>>
        \/ label = <<"s","t","a","t","i","o","n">>
        \/ label = <<"s","y","s","t","e","m">>
        \/ label = <<"p","l","a","n","e","t">>

hasExplicitIdentifier(c) ==
    /\ c # NoDetail
    /\ \/ Truthy(c.stationNaturalId)
       \/ Truthy(c.stationId)
       \/ Truthy(c.planetNaturalId)
       \/ Truthy(c.planetId)

\* candidate.displayPriority ?? (rank derived from the identifiers present)
derivedPriority(c) ==
    IF c.displayPriority # NoPriority THEN c.displayPriority
    ELSE IF Truthy(c.planetId) \/ Truthy(c.planetNaturalId) THEN 0
    ELSE IF Truthy(c.stationId) \/ Truthy(c.stationNaturalId) THEN 1
    ELSE IF Truthy(c.systemId) THEN 2
    ELSE 5

\* one round of the forEach of selectDisplayLocation, for a candidate of the
\* priority of best: whether the candidate replaces best
ReplacesBest(best, c) ==
    LET bestLabel == getCandidateLabel(best)
        candidateLabel == getCandidateLabel(c)
    IN  \/ hasExplicitIdentifier(c) /\ ~hasExplicitIdentifier(best)
        \/ ~isGenericLabel(c) /\ isGenericLabel(best)
        \/ candidateLabel # <<>> /\ bestLabel = <<>>
        \/ /\ candidateLabel # <<>>
           /\ bestLabel # <<>>
           /\ Len(candidateLabel) > Len(bestLabel) + 2

\* selectDisplayLocation with the priority test inverted (keeps the least specific)
RECURSIVE SelectLeastSpecificFrom(_, _, _)
SelectLeastSpecificFrom(cands, best, bestPriority) ==
    IF cands = <<>> THEN best
    ELSE LET c == Head(cands)
         IN  IF c = NoDetail THEN SelectLeastSpecificFrom(Tail(cands), best, bestPriority)
             ELSE IF best = NoDetail \/ derivedPriority(c) > bestPriority
                  THEN SelectLeastSpecificFrom(Tail(cands), c, derivedPriority(c))
             ELSE IF derivedPriority(c) # bestPriority
                  THEN SelectLeastSpecificFrom(Tail(cands), best, bestPriority)
             ELSE IF ReplacesBest(best, c)
                  THEN SelectLeastSpecificFrom(Tail(cands), c, bestPriority)
             ELSE SelectLeastSpecificFrom(Tail(cands), best, bestPriority)

\* the candidates.forEach of selectDisplayLocation
RECURSIVE SelectFrom(_, _, _)
SelectFrom(cands, best, bestPriority) ==
    IF cands = <<>> THEN best
    ELSE LET c == Head(cands)
         IN  IF c = NoDetail THEN SelectFrom(Tail(cands), best, bestPriority)
             ELSE IF best = NoDetail \/ derivedPriority(c) < bestPriority
                  THEN SelectFrom(Tail(cands), c, derivedPriority(c))
             ELSE IF derivedPriority(c) # bestPriority
                  THEN SelectFrom(Tail(cands), best, bestPriority)
             ELSE IF ReplacesBest(best, c)
                  THEN SelectFrom(Tail(cands), c, bestPriority)
             ELSE SelectFrom(Tail(cands), best, bestPriority)

\* Number.POSITIVE_INFINITY as the initial bestPriority: above every rank
InfinitePriority == 1000

selectLeastSpecific(cands) == SelectLeastSpecificFrom(cands, NoDetail, InfinitePriority)

selectDisplayLocation(cands) == SelectFrom(cands, NoDetail, InfinitePriority)

\* ---- the LocationDetails the selector is exercised on

\* what extractLocationDetails returns when nothing was found
EmptyDetail ==
    [systemId |-> Null, systemName |-> Null, systemNaturalId |-> Null,
     planetId |-> Null, planetNaturalId |-> Null, planetName |-> Null,
     stationId |-> Null, stationNaturalId |-> Null, stationName |-> Null,
     displayName |-> Null, displayKind |-> "none", displayPriority |-> NoPriority]

PlanetDetail(name, id) ==
    [EmptyDetail EXCEPT !.planetName = name, !.planetId = id, !.displayName = name,
                        !.displayKind = "planet", !.displayPriority = 0]

StationDetail(name, naturalId) ==
    [EmptyDetail EXCEPT !.stationName = name, !.stationNaturalId = naturalId,
                        !.displayName = name, !.displayKind = "station",
                        !.displayPriority = 1]

SystemDetail(name, id) ==
    [EmptyDetail EXCEPT !.systemName = name, !.systemId = id, !.displayName = name,
                        !.displayKind = "system", !.displayPriority = 2]

DetailPool ==
    { NoDetail,
      EmptyDetail,
      PlanetDetail(<<"V","a","l">>, <<"p","1">>),
      PlanetDetail(<<"M","o","n","t","e","m">>, Null),
      StationDetail(<<"S","t","a","t","i","o","n">>, <<"M","O","R">>),
      StationDetail(<<"M","o"," ","H","u","b">>, Null),
      SystemDetail(<<"M","o">>, SysId1),
      SystemDetail(<<"s","y","s","t","e","m">>, SysId2) }

\* longest argument list of selectDisplayLocation
MaxCandidates == 3

RECURSIVE SeqsUpTo(_, _)
SeqsUpTo(S, n) ==
    IF n = 0 THEN {<<>>}
    ELSE SeqsUpTo(S, n - 1) \cup {Append(q, x) : q \in {r \in SeqsUpTo(S, n - 1) : Len(r) = n - 1}, x \in S}

\* one call of selectDisplayLocation(...candidates)
SelectDisplayLocation ==
    /\ ~selected[1]
    /\ selected' = <<TRUE, selectDisplayLocation(candidates)>>
    /\ UNCHANGED <<candidates, selectOthers>>

-----------------------------------------------------------------------------
(* ShipmentContractMatcher: the shipmentContractsByItemId memo.               *)
(* A contract is [Type, Conditions]; a condition is [Type, ShipmentItemId,    *)
(* ConditionIndex].                                                           *)

\* A numeric field holds what toNumericValue makes of it: a finite number, or
\* NoNumber for null (the field is absent, empty or not numeric)
NoNumber == -1000000

\* Number.POSITIVE_INFINITY as the sort index of an entry without an index
InfiniteIndex == 1000000

normalizeLookupKey(value) ==
    IF value = Null THEN Null
    ELSE IF trim(value) = <<>> THEN Null
    ELSE toLowerCase(trim(value))

DELIVERYSHIPMENT == <<"D","E","L","I","V","E","R","Y","S","H","I","P","M","E","N","T">>
DELIVERSHIPMENT == <<"D","E","L","I","V","E","R","S","H","I","P","M","E","N","T">>
DELIVERY_SHIPMENT == <<"D","E","L","I","V","E","R","Y","_","S","H","I","P","M","E","N","T">>

\* a normalization that takes every type for the delivery-shipment token
normalizeAnyType(value) == IF value = Null THEN Null ELSE DELIVERY_SHIPMENT

normalizeDeliveryShipmentType(value) ==
    IF value = Null THEN Null
    ELSE IF trim(value) = <<>> THEN Null
    ELSE LET collapsed == SelectSeq(toUpperCase(trim(value)), IsUpper)
         IN  IF collapsed = DELIVERYSHIPMENT \/ collapsed = DELIVERSHIPMENT
             THEN DELIVERY_SHIPMENT
             ELSE Null

isDeliveryShipmentType(value) == normalizeDeliveryShipmentType(value) # Null

\* the conditionEntry pushed for a condition of a contract
ConditionEntry(contract, condition) ==
    [contractType |-> IF normalizeDeliveryShipmentType(contract.Type) # Null
                      THEN normalizeDeliveryShipmentType(contract.Type)
                      ELSE contract.Type,
     conditionType |-> normalizeDeliveryShipmentType(condition.Type),
     conditionTypeRaw |-> condition.Type,
     conditionIndex |-> condition.ConditionIndex,
     condition |-> condition]

\* rawShipmentItemId of a condition: of its four fields ShipmentItemId and MaterialId
rawShipmentItemId(condition) == FirstTruthy(<<condition.ShipmentItemId, condition.MaterialId>>)

\* the conditions.forEach of one contract
RECURSIVE IndexConditions(_, _, _)
IndexConditions(map, contract, conditions) ==
    IF conditions = <<>> THEN map
    ELSE LET condition == Head(conditions)
             normalizedShipmentItemId == normalizeLookupKey(rawShipmentItemId(condition))
         IN  IF normalizeDeliveryShipmentType(condition.Type) = Null
                \/ normalizedShipmentItemId = Null
             THEN IndexConditions(map, contract, Tail(conditions))
             ELSE IndexConditions(
                    MapSet(map, normalizedShipmentItemId,
                           Append(IF normalizedShipmentItemId \in DOMAIN map
                                  THEN map[normalizedShipmentItemId] ELSE <<>>,
                                  ConditionEntry(contract, condition))),
                    contract, Tail(conditions))

\* the contracts.forEach
RECURSIVE IndexContracts(_, _)
IndexContracts(map, list) ==
    IF list = <<>> THEN map
    ELSE LET contract == Head(list)
             hasDeliveryShipmentCondition ==
                 \E i \in 1..Len(contract.Conditions) :
                     isDeliveryShipmentType(contract.Conditions[i].Type)
         IN  IF normalizeDeliveryShipmentType(contract.Type) = Null
                /\ ~hasDeliveryShipmentCondition
             THEN IndexContracts(map, Tail(list))
             ELSE IndexContracts(IndexConditions(map, contract, contract.Conditions), Tail(list))

\* indexA / indexB of the comparator
SortIndex(entry) ==
    IF entry.conditionIndex # NoNumber THEN entry.conditionIndex ELSE InfiniteIndex

\* String.prototype.localeCompare(a, b) < 0 on the condition types of the
\* index, which are all 'DELIVERY_SHIPMENT' or '': the empty string first
LocaleBefore(a, b) == a = <<>> /\ b # <<>>

\* the comparator of entries.sort: a sorts strictly before b
EntryBefore(a, b) ==
    IF SortIndex(a) # SortIndex(b) THEN SortIndex(a) < SortIndex(b)
    ELSE LocaleBefore(IF a.conditionType = Null THEN <<>> ELSE a.conditionType,
                      IF b.conditionType = Null THEN <<>> ELSE b.conditionType)

\* one step of a stable sort: entry goes behind every entry it does not precede
RECURSIVE InsertEntry(_, _)
InsertEntry(sorted, entry) ==
    IF sorted = <<>> THEN <<entry>>
    ELSE IF EntryBefore(entry, Head(sorted)) THEN <<entry>> \o sorted
    ELSE <<Head(sorted)>> \o InsertEntry(Tail(sorted), entry)

RECURSIVE SortFrom(_, _)
SortFrom(sorted, entries) ==
    IF entries = <<>> THEN sorted
    ELSE SortFrom(InsertEntry(sorted, Head(entries)), Tail(entries))

\* the lists left as they were pushed
keepPushOrder(entries) == entries

\* entries.sort(...): Array.prototype.sort is stable
sortEntries(entries) == SortFrom(<<>>, entries)

\* the shipmentContractsByItemId memo
BuildShipmentContracts(list) ==
    LET map == IndexContracts(EmptyMap, list)
    IN  [key \in DOMAIN map |-> sortEntries(map[key])]

-----------------------------------------------------------------------------
(* StorageRecordSelector: evaluateStorageRecord, pickPreferredStorageRecord,  *)
(* storageIndex, and the per-ship scan of considerShip.                       *)
(* A storage record carries, of the seventeen key fields the index reads,     *)
(* StorageId and Name; uid stands for the identity of the JavaScript object.  *)

\* -Infinity as the timestamp of a record without a parseable timestamp
MinusInfinity == -1

NoRecord == [isNull |-> TRUE]

\* String.prototype.includes
Includes(s, sub) ==
    \E i \in 1..(Len(s) - Len(sub) + 1) : SubSeq(s, i, i + Len(sub) - 1) = sub

\* pickNumericValue(record, [field]) != null
HasNumeric(value) == value # NoNumber

RECURSIVE DigitsValue(_)
DigitsValue(s) ==
    IF s = <<>> THEN 0
    ELSE 10 * DigitsValue(SubSeq(s, 1, Len(s) - 1))
         + (CHOOSE d \in 0..9 : <<"0","1","2","3","4","5","6","7","8","9">>[d + 1] = s[Len(s)])

\* Date.parse on the timestamps of the model, four-digit years ("2024"), in
\* years instead of milliseconds; NaN (here MinusInfinity) for anything else
dateParse(s) ==
    IF Len(s) = 4 /\ \A i \in 1..4 : IsDigit(s[i]) THEN DigitsValue(s) ELSE MinusInfinity

\* a type score that tells no ship hold from a plain store
typeScoreOfStore(rawType) ==
    IF Includes(SelectSeq(toLowerCase(rawType), IsLower), <<"s","t","o","r","e">>) THEN 60 ELSE 0

typeScore(rawType) ==
    LET normalizedType == SelectSeq(toLowerCase(rawType), IsLower)
        ship == <<"s","h","i","p">>
        store == <<"s","t","o","r","e">>
    IN  IF Includes(normalizedType, ship \o store) THEN 300
        ELSE IF Includes(normalizedType, ship) /\ Includes(normalizedType, store) THEN 240
        ELSE IF Includes(normalizedType, ship) THEN 180
        ELSE IF Includes(normalizedType, <<"f","t","l","f","u","e","l">>) THEN 90
        ELSE IF Includes(normalizedType, <<"s","t","l","f","u","e","l">>) THEN 80
        ELSE IF Includes(normalizedType, store) THEN 60
        ELSE 0

evaluateStorageRecord(record) ==
    LET rawType == IF record.Type = Null THEN <<>> ELSE record.Type
        score == typeScore(rawType)
                 + (IF record.FixedStore = "false" THEN 25 ELSE 0)
                 + (IF HasNumeric(record.WeightCapacity) THEN 40 ELSE 0)
                 + (IF HasNumeric(record.VolumeCapacity) THEN 40 ELSE 0)
                 + (IF HasNumeric(record.WeightLoad) THEN 20 ELSE 0)
                 + (IF HasNumeric(record.VolumeLoad) THEN 20 ELSE 0)
                 + (IF Truthy(record.Name) THEN 5 ELSE 0)
        timestampValue == IF Truthy(record.Timestamp)
                          THEN dateParse(record.Timestamp) ELSE MinusInfinity
    IN  [score |-> score, timestamp |-> timestampValue]

\* pickPreferredStorageRecord that keeps whatever record comes last
pickLatestSeen(existing, cand) ==
    IF cand = NoRecord THEN existing ELSE cand

\* pickPreferredStorageRecord that looks at the score only
pickByScoreOnly(existing, cand) ==
    IF cand = NoRecord THEN existing
    ELSE IF existing = NoRecord THEN cand
    ELSE IF evaluateStorageRecord(cand).score > evaluateStorageRecord(existing).score
         THEN cand
    ELSE existing

pickPreferredStorageRecord(existing, cand) ==
    IF cand = NoRecord THEN existing
    ELSE IF existing = NoRecord THEN cand
    ELSE IF existing = cand THEN existing
    ELSE LET existingEval == evaluateStorageRecord(existing)
             candidateEval == evaluateStorageRecord(cand)
         IN  IF candidateEval.score > existingEval.score THEN cand
             ELSE IF candidateEval.score < existingEval.score THEN existing
             ELSE IF candidateEval.timestamp > existingEval.timestamp THEN cand
             ELSE IF candidateEval.timestamp < existingEval.timestamp THEN existing
             ELSE existing

\* the candidateKeys of a storage record, in the order of the source
RecordKeys(record) == <<record.StorageId, record.Name>>

MapGet(map, key) == IF key \in DOMAIN map THEN map[key] ELSE NoRecord

\* the candidateKeys.forEach of storageIndex, for one record
RECURSIVE IndexRecordKeys(_, _, _)
IndexRecordKeys(index, record, keys) ==
    IF keys = <<>> THEN index
    ELSE LET normalized == normalizeLookupKey(Head(keys))
             existing == IF normalized = Null THEN NoRecord ELSE MapGet(index, normalized)
             preferred == pickPreferredStorageRecord(existing, record)
         IN  IF normalized # Null /\ preferred # NoRecord
                /\ (existing = NoRecord \/ preferred # existing)
             THEN IndexRecordKeys(MapSet(index, normalized, preferred), record, Tail(keys))
             ELSE IndexRecordKeys(index, record, Tail(keys))

\* the storageData.forEach of storageIndex
RECURSIVE IndexRecords(_, _)
IndexRecords(index, data) ==
    IF data = <<>> THEN index
    ELSE IndexRecords(IndexRecordKeys(index, Head(data), RecordKeys(Head(data))), Tail(data))

\* the storageIndex memo
BuildStorageIndex(data) == IndexRecords(EmptyMap, data)

\* allLookupCandidates of considerShip: of its thirty-nine fields, in the order
\* of the source, ShipId, Name and StorageId
ShipLookupCandidates(ship) == <<ship.ShipId, ship.Name, ship.StorageId>>

\* the for loop of considerShip over allLookupCandidates: <<storageRecord, storageRecordEval>>
RECURSIVE ScanLookupCandidates(_, _, _)
ScanLookupCandidates(index, keys, best) ==
    IF keys = <<>> THEN best
    ELSE LET normalized == normalizeLookupKey(Head(keys))
             candidateRecord == IF normalized = Null THEN NoRecord ELSE MapGet(index, normalized)
         IN  IF candidateRecord = NoRecord
             THEN ScanLookupCandidates(index, Tail(keys), best)
             ELSE LET evaluation == evaluateStorageRecord(candidateRecord)
                  IN  IF \/ best = NoRecord
                         \/ evaluation.score > evaluateStorageRecord(best).score
                         \/ /\ evaluation.score = evaluateStorageRecord(best).score
                            /\ evaluation.timestamp > evaluateStorageRecord(best).timestamp
                      THEN ScanLookupCandidates(index, Tail(keys), candidateRecord)
                      ELSE ScanLookupCandidates(index, Tail(keys), best)

\* the storageRecord considerShip settles on for a ship
SelectStorageRecord(index, ship) ==
    ScanLookupCandidates(index, ShipLookupCandidates(ship), NoRecord)

\* ---- storageRecordScoreCache: what the builds leave in the WeakMap.
\* A record of a snapshot is an object of its own: the snapshots come out of
\* JSON payloads, so the records of a new storageData are fresh objects and
\* the entries of the records before are unreachable. Two records of one
\* snapshot with equal fields are taken to be one object.

\* the records pickPreferredStorageRecord evaluates
ComparedRecords(existing, cand) ==
    IF cand = NoRecord \/ existing = NoRecord \/ existing = cand THEN {} ELSE {existing, cand}

\* the records evaluated while one record is filed under its keys, the index
\* being the one before the record
RECURSIVE EvaluatedForKeys(_, _, _)
EvaluatedForKeys(index, record, keys) ==
    IF keys = <<>> THEN {}
    ELSE (IF normalizeLookupKey(Head(keys)) = Null THEN {}
          ELSE ComparedRecords(MapGet(index, normalizeLookupKey(Head(keys))), record))
         \cup EvaluatedForKeys(IndexRecordKeys(index, record, <<Head(keys)>>), record, Tail(keys))

\* the records evaluated while storageIndex is built
RECURSIVE EvaluatedByIndex(_, _)
EvaluatedByIndex(index, data) ==
    IF data = <<>> THEN {}
    ELSE EvaluatedForKeys(index, Head(data), RecordKeys(Head(data)))
         \cup EvaluatedByIndex(IndexRecordKeys(index, Head(data), RecordKeys(Head(data))),
                               Tail(data))

\* the records considerShip evaluates for one ship: every record a lookup
\* candidate finds
EvaluatedByScan(index, ship) ==
    { MapGet(index, normalizeLookupKey(ShipLookupCandidates(ship)[k])) :
        k \in { j \in 1..Len(ShipLookupCandidates(ship)) :
                   /\ normalizeLookupKey(ShipLookupCandidates(ship)[j]) # Null
                   /\ normalizeLookupKey(ShipLookupCandidates(ship)[j]) \in DOMAIN index } }

\* the records evaluated while storageIndex and shipLoadInfo are built
EvaluatedRecords(data, list, index) ==
    EvaluatedByIndex(EmptyMap, data)
    \cup UNION { EvaluatedByScan(index, list[i]) : i \in 1..Len(list) }

\* a WeakMap that holds the same evaluation for every record
blankScoreCache(records) == [record \in records |-> [score |-> 0, timestamp |-> MinusInfinity]]

\* the WeakMap with the evaluations of the records given
ScoreCacheOf(records) == [record \in records |-> evaluateStorageRecord(record)]

-----------------------------------------------------------------------------
(* ShipLoadAggregator: the shipLoadInfo memo (considerShip), getPrimaryShipId *)
(* and getShipLoadInfoById.                                                   *)
(* A ship is [ShipId, Name, StorageId, Storage, WeightCapacity,               *)
(* VolumeCapacity, WeightLoad, VolumeLoad, PercentFull, CargoPercentFull]; a   *)
(* storage item is [ShipmentItemId, MaterialId, Type]. A ratio is a fraction  *)
(* [n, d] in lowest terms.                                                    *)

NoRatio == [isNull |-> TRUE]

NoInfo == [isNull |-> TRUE]

RECURSIVE Gcd(_, _)
Gcd(a, b) == IF b = 0 THEN a ELSE Gcd(b, a % b)

\* n / d for n >= 0 and d > 0
Fraction(n, d) == [n |-> n \div Gcd(n, d), d |-> d \div Gcd(n, d)]

RatioLeq(a, b) == a.n * b.d <= b.n * a.d

\* Math.max(0, load / capacity) for capacity > 0
RatioOf(load, capacity) == IF load < 0 THEN Fraction(0, 1) ELSE Fraction(load, capacity)

\* normalizePercent that takes every percentage as reported
percentAsReported(value) ==
    IF value = NoNumber THEN NoRatio
    ELSE IF value < 0 THEN [n |-> value, d |-> 1]
    ELSE Fraction(value, 1)

\* normalizePercent
normalizePercent(value) ==
    IF value = NoNumber THEN NoRatio
    ELSE IF 2 * value > 3 THEN Fraction(value, 100)
    ELSE IF value < 0 THEN [n |-> value, d |-> 1]
    ELSE Fraction(value, 1)

\* pickFromSources(sources, fields): values holds, source by source, what
\* pickNumericValue reads from it
RECURSIVE pickFromSources(_)
pickFromSources(values) ==
    IF values = <<>> THEN NoNumber
    ELSE IF Head(values) # NoNumber THEN Head(values)
    ELSE pickFromSources(Tail(values))

\* ship.Storage && typeof ship.Storage === 'object' ? ship.Storage : null
shipStorageSource(ship) == ship.Storage

\* Math.max(...ratioCandidates)
RECURSIVE MaxRatio(_, _)
MaxRatio(best, ratios) ==
    IF ratios = <<>> THEN best
    ELSE IF best = NoRatio \/ RatioLeq(best, Head(ratios))
         THEN MaxRatio(Head(ratios), Tail(ratios))
    ELSE MaxRatio(best, Tail(ratios))

IsRatio(r) == r # NoRatio

DigitString(i) == <<<<"0","1","2","3","4","5","6","7","8","9">>[i + 1]>>

\* the candidateIds loop of collectShipmentsFromRecord: the first normalized
\* candidate id that the shipment-contract index has
RECURSIVE MatchedKey(_, _)
MatchedKey(contractIndex, candidateIds) ==
    IF candidateIds = <<>> THEN Null
    ELSE LET normalizedCandidate == normalizeLookupKey(Head(candidateIds))
         IN  IF normalizedCandidate # Null /\ normalizedCandidate \in DOMAIN contractIndex
             THEN normalizedCandidate
             ELSE MatchedKey(contractIndex, Tail(candidateIds))

\* a dedupeKey made of the record and the position alone
DedupeByPosition(contractIndex, record, item, index) ==
    (IF FirstTruthy(<<record.StorageId, record.Name>>) = Null THEN <<"r","e","c","o","r","d">>
     ELSE IF normalizeLookupKey(FirstTruthy(<<record.StorageId, record.Name>>)) = Null THEN Null
     ELSE normalizeLookupKey(FirstTruthy(<<record.StorageId, record.Name>>)))
    \o <<":", ":">> \o DigitString(index)

\* dedupeKey of a storage item; index counts from 0
DedupeKey(contractIndex, record, item, index) ==
    LET matchedKey == MatchedKey(contractIndex, <<item.ShipmentItemId, item.MaterialId, item.Id>>)
        recordKey == FirstTruthy(<<record.StorageId, record.Name>>)
    IN  IF matchedKey # Null THEN matchedKey
        ELSE IF normalizeLookupKey(item.MaterialId) # Null
             THEN normalizeLookupKey(item.MaterialId)
        ELSE IF normalizeLookupKey(item.ShipmentItemId) # Null
             THEN normalizeLookupKey(item.ShipmentItemId)
        ELSE (IF recordKey = Null THEN <<"r","e","c","o","r","d">>
              ELSE IF normalizeLookupKey(recordKey) = Null THEN Null
              ELSE normalizeLookupKey(recordKey))
             \o <<":", ":">> \o DigitString(index)

\* the items.forEach of collectShipmentsFromRecord from item number index on;
\* acc is <<shipments, seenShipmentKeys>>
RECURSIVE CollectItems(_, _, _, _)
CollectItems(contractIndex, record, index, acc) ==
    IF index >= Len(record.StorageItems) THEN acc
    ELSE LET item == record.StorageItems[index + 1]
             matchedKey == MatchedKey(contractIndex, <<item.ShipmentItemId, item.MaterialId, item.Id>>)
             dedupeKey == DedupeKey(contractIndex, record, item, index)
             itemTypeRaw == IF item.Type = Null THEN <<>> ELSE toLowerCase(item.Type)
             isLikelyShipment == Includes(itemTypeRaw, <<"s","h","i","p","m","e","n","t">>)
         IN  IF dedupeKey \in acc[2] \/ (matchedKey = Null /\ ~isLikelyShipment)
             THEN CollectItems(contractIndex, record, index + 1, acc)
             ELSE CollectItems(contractIndex, record, index + 1,
                    <<Append(acc[1],
                             [storageItem |-> item,
                              shipmentItemKey |-> matchedKey,
                              contractMatches |-> IF matchedKey = Null THEN <<>>
                                                  ELSE contractIndex[matchedKey],
                              source |-> [storageId |-> FirstTruthy(<<record.StorageId>>),
                                          name |-> FirstTruthy(<<record.Name>>),
                                          type |-> FirstTruthy(<<record.Type>>)]]),
                      acc[2] \cup {dedupeKey}>>)

collectShipmentsFromRecord(contractIndex, record, acc) ==
    IF record = NoRecord THEN acc
    ELSE CollectItems(contractIndex, record, 0, acc)

\* the field of a source of pickFromSources; null sources have no fields
FieldOf(source, field) == IF source = NoRecord THEN NoNumber ELSE source[field]

\* [storageRecord, shipStorageSource, ship] read at one field, then the ship again
PickLoadField(storageRecord, ship, field) ==
    pickFromSources(<<FieldOf(storageRecord, field),
                      FieldOf(shipStorageSource(ship), field),
                      ship[field],
                      ship[field]>>)

\* Math.max(0, ratio) on a ratio that may be null
clampRatio(r) ==
    IF r = NoRatio THEN NoRatio
    ELSE IF r.n < 0 THEN Fraction(0, 1) ELSE r

\* derivedVolumeLoad and derivedWeightLoad
DerivedLoad(load, capacity, ratio) ==
    IF load # NoNumber THEN load
    ELSE IF capacity # NoNumber /\ ratio # NoRatio THEN (ratio.n * capacity) \div ratio.d
    ELSE NoNumber

\* volumeRatio and weightRatio
DimensionRatio(load, capacity) ==
    IF capacity # NoNumber /\ capacity > 0 /\ load # NoNumber
    THEN RatioOf(load, capacity) ELSE NoRatio

\* considerShip without its early return
InfoWithoutEarlyReturn(storageRecord, volumeCapacity, weightCapacity, volumeLoad, weightLoad, volumeRatio, weightRatio, ratio, shipments) ==
    [storageRecord |-> storageRecord,
     volumeCapacity |-> volumeCapacity,
     weightCapacity |-> weightCapacity,
     volumeLoad |-> DerivedLoad(volumeLoad, volumeCapacity, volumeRatio),
     weightLoad |-> DerivedLoad(weightLoad, weightCapacity, weightRatio),
     volumeRatio |-> clampRatio(volumeRatio),
     weightRatio |-> clampRatio(weightRatio),
     ratio |-> clampRatio(ratio),
     shipments |-> shipments]

\* considerShip from the early return on
InfoFromRatios(storageRecord, volumeCapacity, weightCapacity, volumeLoad, weightLoad, volumeRatio, weightRatio, ratio, shipments) ==
    IF /\ storageRecord = NoRecord
       /\ volumeCapacity = NoNumber
       /\ weightCapacity = NoNumber
       /\ volumeLoad = NoNumber
       /\ weightLoad = NoNumber
       /\ ratio = NoRatio
       /\ shipments = <<>>
    THEN NoInfo
    ELSE [storageRecord |-> storageRecord,
          volumeCapacity |-> volumeCapacity,
          weightCapacity |-> weightCapacity,
          volumeLoad |-> DerivedLoad(volumeLoad, volumeCapacity, volumeRatio),
          weightLoad |-> DerivedLoad(weightLoad, weightCapacity, weightRatio),
          volumeRatio |-> clampRatio(volumeRatio),
          weightRatio |-> clampRatio(weightRatio),
          ratio |-> clampRatio(ratio),
          shipments |-> shipments]

\* considerShip from the ratios on
InfoFromFields(storageRecord, volumeCapacity, weightCapacity, volumeLoad, weightLoad, volumeRatio, weightRatio, percentRatio, shipments) ==
    InfoFromRatios(storageRecord, volumeCapacity, weightCapacity, volumeLoad, weightLoad,
                   volumeRatio, weightRatio,
                   MaxRatio(NoRatio, SelectSeq(<<volumeRatio, weightRatio, percentRatio>>, IsRatio)),
                   shipments)

\* considerShip from the capacities and loads on
InfoFromLoads(storageRecord, volumeCapacity, weightCapacity, volumeLoad, weightLoad, generalPercent, shipments) ==
    InfoFromFields(storageRecord, volumeCapacity, weightCapacity, volumeLoad, weightLoad,
                   DimensionRatio(volumeLoad, volumeCapacity),
                   DimensionRatio(weightLoad, weightCapacity),
                   normalizePercent(generalPercent),
                   shipments)

\* considerShip once the storage record of the ship is settled
InfoFromRecord(contractIndex, ship, storageRecord) ==
    InfoFromLoads(storageRecord,
                  PickLoadField(storageRecord, ship, "VolumeCapacity"),
                  PickLoadField(storageRecord, ship, "WeightCapacity"),
                  PickLoadField(storageRecord, ship, "VolumeLoad"),
                  PickLoadField(storageRecord, ship, "WeightLoad"),
                  pickFromSources(<<FieldOf(storageRecord, "PercentFull"),
                                    FieldOf(shipStorageSource(ship), "PercentFull"),
                                    ship.PercentFull,
                                    ship.CargoPercentFull>>),
                  collectShipmentsFromRecord(contractIndex, shipStorageSource(ship),
                      collectShipmentsFromRecord(contractIndex, storageRecord, <<<<>>, {}>>))[1])

\* the ShipLoadInfo considerShip builds for a ship, NoInfo when it returns early
ShipInfo(index, contractIndex, ship) ==
    InfoFromRecord(contractIndex, ship, SelectStorageRecord(index, ship))

\* allLookupCandidates.forEach at the end of considerShip, with the guard
\* !map.has(normalized)
RECURSIVE SetIfAbsent(_, _, _)
SetIfAbsent(map, keys, info) ==
    IF keys = <<>> THEN map
    ELSE IF normalizeLookupKey(Head(keys)) # Null
            /\ normalizeLookupKey(Head(keys)) \notin DOMAIN map
         THEN SetIfAbsent(MapSet(map, normalizeLookupKey(Head(keys)), info), Tail(keys), info)
    ELSE SetIfAbsent(map, Tail(keys), info)

\* considerShip once the info of the ship is built
RecordInfo(map, ship, info) ==
    IF info = NoInfo THEN map
    ELSE SetIfAbsent(map, ShipLookupCandidates(ship), info)

considerShip(map, index, contractIndex, ship) ==
    RecordInfo(map, ship, ShipInfo(index, contractIndex, ship))

\* (ships || []).forEach(considerShip)
RECURSIVE ConsiderShips(_, _, _, _)
ConsiderShips(map, index, contractIndex, list) ==
    IF list = <<>> THEN map
    ELSE ConsiderShips(considerShip(map, index, contractIndex, Head(list)),
                       index, contractIndex, Tail(list))

\* the shipLoadInfo memo
BuildShipLoadInfo(list, index, contractIndex) ==
    ConsiderShips(EmptyMap, index, contractIndex, list)

\* getPrimaryShipId: of its candidates [ShipId, Id, Ship, Registration, Name]
\* the first that is not null
getPrimaryShipId(ship) ==
    IF ship.ShipId # Null THEN ship.ShipId
    ELSE IF ship.Name # Null THEN ship.Name
    ELSE Null

getShipLoadInfoById(map, cand) ==
    LET normalized == normalizeLookupKey(cand)
    IN  IF normalized = Null THEN NoInfo
        ELSE IF normalized \in DOMAIN map THEN map[normalized]
        ELSE NoInfo

-----------------------------------------------------------------------------
(* The data snapshots of GraphContext and the memos DataPointOverlay derives  *)
(* from them. A new snapshot replaces the list as a whole; the snapshots of   *)
(* the model differ from the list they replace by one record more or by two   *)
(* neighbours exchanged. Every memo whose dependency changed is rebuilt.      *)

sp == " "

IdS1 == <<"s","1">>
IdS1Padded == <<"S","1",sp>>
IdA == <<"a">>
IdB == <<"b">>
IdX == <<"x">>
IdXUpper == <<"X">>
IdY == <<"y">>
IdI1 == <<"i","1">>
IdI1Upper == <<"I","1">>
IdI2 == <<"i","2">>

TypeShipStore == <<"S","H","I","P","_","S","T","O","R","E">>
TypeStore == <<"S","T","O","R","E">>
TypeShipment == <<"S","H","I","P","M","E","N","T">>
TypePayment == <<"P","A","Y","M","E","N","T">>
TypeDeliveryShipment == <<"D","e","l","i","v","e","r","y",sp,"S","h","i","p","m","e","n","t">>

Year2024 == <<"2","0","2","4">>
Year2025 == <<"2","0","2","5">>
BadTimestamp == <<"s","o","o","n">>

\* a storage record without capacities, loads, timestamp or items
BareRecord(storageId, name, type) ==
    [StorageId |-> storageId, Name |-> name, Type |-> type, FixedStore |-> "absent",
     WeightCapacity |-> NoNumber, VolumeCapacity |-> NoNumber,
     WeightLoad |-> NoNumber, VolumeLoad |-> NoNumber, PercentFull |-> NoNumber,
     Timestamp |-> Null, StorageItems |-> <<>>]

\* a ship hold with capacities and a weight load
HoldRecord(storageId, name, weightCapacity, timestamp) ==
    [BareRecord(storageId, name, TypeShipStore) EXCEPT
        !.FixedStore = "false",
        !.WeightCapacity = weightCapacity, !.VolumeCapacity = 500,
        !.WeightLoad = 250, !.Timestamp = timestamp]

ShipmentItem == [ShipmentItemId |-> IdI1Upper, MaterialId |-> Null, Id |-> Null, Type |-> Null]
LooseItem == [ShipmentItemId |-> Null, MaterialId |-> Null, Id |-> Null, Type |-> TypeShipment]
\* items tagged as shipment that carry a material id, and nothing but an Id
MaterialItem == [ShipmentItemId |-> Null, MaterialId |-> IdI2, Id |-> Null, Type |-> TypeShipment]
TaggedItem == [ShipmentItemId |-> Null, MaterialId |-> Null, Id |-> IdI2, Type |-> TypeShipment]

RecordPool ==
    { HoldRecord(IdS1, Null, 500, Year2024),
      HoldRecord(IdS1Padded, Null, 1000, Year2024),
      HoldRecord(IdS1, Null, 500, Year2025),
      HoldRecord(IdS1, Null, 500, BadTimestamp),
      HoldRecord(IdS1, IdY, 500, Year2024),
      HoldRecord(Null, IdX, 1000, Year2024),
      BareRecord(IdS1, Null, TypeStore),
      [BareRecord(IdS1, IdX, TypeStore) EXCEPT !.StorageItems = <<ShipmentItem, LooseItem>>] }

\* a ship without load fields of its own
BareShip(shipId, name, storageId) ==
    [ShipId |-> shipId, Name |-> name, StorageId |-> storageId, Storage |-> NoRecord,
     WeightCapacity |-> NoNumber, VolumeCapacity |-> NoNumber,
     WeightLoad |-> NoNumber, VolumeLoad |-> NoNumber,
     PercentFull |-> NoNumber, CargoPercentFull |-> NoNumber,
     CurrentSegmentIndex |-> NoNumber, Progress |-> NoRatio]

ShipPool ==
    { BareShip(IdA, IdX, IdS1),
      BareShip(IdA, Null, IdS1),
      [BareShip(IdA, IdX, Null) EXCEPT !.WeightCapacity = 500, !.WeightLoad = 250],
      [BareShip(IdXUpper, Null, Null) EXCEPT !.WeightCapacity = 1000, !.WeightLoad = 250],
      BareShip(IdB, Null, Null),
      [BareShip(IdB, IdY, Null) EXCEPT
          !.CargoPercentFull = 50,
          !.Storage = [BareRecord(Null, Null, Null) EXCEPT !.StorageItems = <<ShipmentItem>>]] }

Condition(type, shipmentItemId, conditionIndex) ==
    [Type |-> type, ShipmentItemId |-> shipmentItemId, MaterialId |-> Null,
     ConditionIndex |-> conditionIndex]

ContractPool ==
    { [Type |-> DELIVERY_SHIPMENT,
       Conditions |-> <<Condition(DELIVERY_SHIPMENT, IdI1, 2), Condition(DELIVERY_SHIPMENT, IdI1, 0)>>],
      [Type |-> Null,
       Conditions |-> <<Condition(TypeDeliveryShipment, IdI1Upper, NoNumber)>>],
      [Type |-> TypePayment,
       Conditions |-> <<Condition(TypePayment, IdI1, 1)>>],
      [Type |-> DELIVERY_SHIPMENT,
       Conditions |-> <<Condition(TypePayment, IdI1, 1), Condition(DELIVERY_SHIPMENT, IdI2, 0)>>],
      [Type |-> Null,
       Conditions |-> <<Condition(DELIVERY_SHIPMENT, IdI1, 0)>>],
      [Type |-> DELIVERY_SHIPMENT,
       Conditions |-> <<Condition(DELIVERY_SHIPMENT, Null, 1)>>],
      [Type |-> DELIVERY_SHIPMENT,
       Conditions |-> <<[Condition(TypeDeliveryShipment, <<>>, 1) EXCEPT !.MaterialId = IdI2],
                        [Condition(TypePayment, Null, 0) EXCEPT !.MaterialId = IdI2]>>] }

MaxRecords == 2
MaxShips == 2
MaxContracts == 3

\* the list with its elements number i and i + 1 exchanged
SwapAt(list, i) ==
    [j \in 1..Len(list) |-> IF j = i THEN list[i + 1] ELSE IF j = i + 1 THEN list[i] ELSE list[j]]

\* the memos after the snapshots have become data, list and contractList;
\* fresh: the records of data are new objects
RebuildWith(data, list, contractList, fresh) ==
    /\ storageData' = data
    /\ ships' = list
    /\ contracts' = contractList
    /\ storageIndex' = BuildStorageIndex(data)
    /\ shipmentContractsByItemId' = BuildShipmentContracts(contractList)
    /\ shipLoadInfo' = BuildShipLoadInfo(list, storageIndex', shipmentContractsByItemId')
    /\ scoreCacheWrites' =
          IF fresh THEN EvaluatedRecords(data, list, storageIndex')
          ELSE EvaluatedRecords(data, list, storageIndex') \ DOMAIN storageRecordScoreCache
    /\ storageRecordScoreCache' =
          IF fresh THEN ScoreCacheOf(scoreCacheWrites')
          ELSE ScoreCacheOf(scoreCacheWrites' \cup DOMAIN storageRecordScoreCache)

\* the memos after a setter call with a snapshot that differs from the one before
Rebuild(data, list, contractList) ==
    /\ RebuildWith(data, list, contractList, data # storageData)
    /\ refetched' = FALSE

\* setStorageData with a snapshot that has one record more
AppendStorageRecord(record) ==
    /\ Len(storageData) < MaxRecords
    /\ Rebuild(Append(storageData, record), ships, contracts)
    /\ UNCHANGED storageOthers

\* setStorageData with a snapshot that lists the same records in another order
SwapStorageRecords(i) ==
    /\ i + 1 <= Len(storageData)
    /\ storageData[i] # storageData[i + 1]
    /\ Rebuild(SwapAt(storageData, i), ships, contracts)
    /\ UNCHANGED storageOthers

\* setShips with a snapshot of one ship
SetShip(ship) ==
    /\ ships # <<ship>>
    /\ Rebuild(storageData, <<ship>>, contracts)
    /\ UNCHANGED storageOthers

\* setShips with a snapshot that has one ship more
AppendShip(ship) ==
    /\ Len(ships) < MaxShips
    /\ \A i \in 1..Len(ships) : ships[i] # ship
    /\ Rebuild(storageData, Append(ships, ship), contracts)
    /\ UNCHANGED storageOthers

\* setShips with a snapshot that lists the same ships in another order
SwapShips(i) ==
    /\ i + 1 <= Len(ships)
    /\ Rebuild(storageData, SwapAt(ships, i), contracts)
    /\ UNCHANGED storageOthers

\* setStorageData with a whole snapshot
SetStorageData(data) ==
    /\ storageData # data
    /\ Rebuild(data, ships, contracts)
    /\ UNCHANGED storageOthers

\* setContracts with a whole snapshot
SetContracts(contractList) ==
    /\ contracts # contractList
    /\ Rebuild(storageData, ships, contractList)
    /\ UNCHANGED contractOthers

\* setContracts with a snapshot that has one contract more
AppendContract(contract) ==
    /\ Len(contracts) < MaxContracts
    /\ Rebuild(storageData, ships, Append(contracts, contract))
    /\ UNCHANGED contractOthers

\* setContracts with a snapshot that lists the same contracts in another order
SwapContracts(i) ==
    /\ i + 1 <= Len(contracts)
    /\ contracts[i] # contracts[i + 1]
    /\ Rebuild(storageData, ships, SwapAt(contracts, i))
    /\ UNCHANGED contractOthers

\* setStorageData with a snapshot equal to the one before, its records fresh
\* objects: storageIndex and shipLoadInfo are built again
RefetchStorageData ==
    /\ storageData # <<>>
    /\ RebuildWith(storageData, ships, contracts, TRUE)
    /\ refetched' = TRUE
    /\ UNCHANGED storageOthers

\* setContracts with a snapshot equal to the one before:
\* shipmentContractsByItemId and shipLoadInfo are built again
RefetchContracts ==
    /\ contracts # <<>>
    /\ RebuildWith(storageData, ships, contracts, FALSE)
    /\ refetched' = TRUE
    /\ UNCHANGED storageOthers

-----------------------------------------------------------------------------
(* FlightPositionInterpolator: getSegmentTimeBounds, clamp01 and              *)
(* interpolateShipPosition. Times are epoch values in whole units; a progress *)
(* is a fraction [n, d] in lowest terms. Of the fields the code reads, a      *)
(* segment carries DepartureEpochMs, ArrivalEpochMs and DurationMs, a flight  *)
(* and a ship carry CurrentSegmentIndex and Progress.                         *)

\* a value that is present but is no number (a string, an object, NaN)
NotANumber == -999999

NoPoint == [isNull |-> TRUE]

NoPosition == [isNull |-> TRUE]

NoFlight == [isNull |-> TRUE]

NoSegment == [isNull |-> TRUE]

NoShip == [isNull |-> TRUE]

\* a progress field holding something Number() turns into NaN
NaNProgress == [isNaN |-> TRUE]

\* truthiness of a numeric value: neither null nor 0
TruthyNumber(value) == value # NoNumber /\ value # 0

\* the fraction n / d for d > 0 and any n
SignedFraction(n, d) == IF n < 0 THEN [n |-> 0 - Fraction(0 - n, d).n, d |-> Fraction(0 - n, d).d]
                        ELSE Fraction(n, d)

\* val as it is
noClamp(val) == val

\* Math.max(0, Math.min(1, val))
clamp01(val) ==
    IF val.n < 0 THEN Fraction(0, 1)
    ELSE IF val.n > val.d THEN Fraction(1, 1)
    ELSE val

\* arrival && departure ? arrival - departure : null
SpanOf(departure, arrival) ==
    IF TruthyNumber(arrival) /\ TruthyNumber(departure) THEN arrival - departure ELSE NoNumber

\* segment.DepartureEpochMs ?? segment.DepartureTimeEpochMs ?? null
DepartureOf(segment) ==
    IF segment.DepartureEpochMs # NoNumber THEN segment.DepartureEpochMs
    ELSE segment.DepartureTimeEpochMs

\* segment.ArrivalEpochMs ?? segment.ArrivalTimeEpochMs ?? null
ArrivalOf(segment) ==
    IF segment.ArrivalEpochMs # NoNumber THEN segment.ArrivalEpochMs
    ELSE segment.ArrivalTimeEpochMs

getSegmentTimeBounds(segment) ==
    IF segment = NoSegment
    THEN [departure |-> NoNumber, arrival |-> NoNumber, duration |-> NoNumber]
    ELSE [departure |-> DepartureOf(segment),
          arrival |-> ArrivalOf(segment),
          duration |-> IF segment.DurationMs # NoNumber THEN segment.DurationMs
                       ELSE SpanOf(DepartureOf(segment), ArrivalOf(segment))]

\* typeof value === 'number' && !Number.isNaN(value)
IsNumberValue(value) == value # NoNumber /\ value # NotANumber

\* the CurrentSegmentIndex of a flight context that may be null
HintOf(record) == IF record = NoFlight THEN NoNumber ELSE record.CurrentSegmentIndex

\* the Progress of a flight context that may be null
ProgressOf(record) == IF record = NoFlight THEN NoRatio ELSE record.Progress

\* segmentIndexCandidates, filtered
segmentIndexCandidates(ship, flight) ==
    SelectSeq(<<HintOf(flight), ship.CurrentSegmentIndex>>, IsNumberValue)

Min(a, b) == IF a <= b THEN a ELSE b
Max(a, b) == IF a >= b THEN a ELSE b

\* the always-last choice of the active segment
lastIndexOf(hints, length) == length - 1

\* selectedIndex, counted from 0 as in the code
selectedIndexOf(hints, length) ==
    IF Len(hints) > 0 THEN Max(0, Min(length - 1, hints[1])) ELSE length - 1

\* value != null && !Number.isNaN(Number(value))
IsValidProgress(value) == value # NoRatio /\ value # NaNProgress

\* progress from the time bounds, NoRatio when neither branch applies
TimeProgress(bounds, time) ==
    IF TruthyNumber(bounds.departure) /\ TruthyNumber(bounds.arrival)
       /\ bounds.arrival > bounds.departure
    THEN clamp01(SignedFraction(time - bounds.departure, bounds.arrival - bounds.departure))
    ELSE IF bounds.duration # NoNumber /\ bounds.duration > 0 /\ TruthyNumber(bounds.departure)
    THEN clamp01(SignedFraction(time - bounds.departure, bounds.duration))
    ELSE NoRatio

\* progress from the explicit fields, NoRatio when none is valid
ExplicitProgress(validProgress) ==
    IF validProgress = <<>> THEN NoRatio ELSE clamp01(validProgress[1])

\* a progress that asks the explicit fields before the time bounds
ProgressExplicitFirst(bounds, validProgress, selectedIndex, length, time) ==
    IF ExplicitProgress(validProgress) # NoRatio THEN ExplicitProgress(validProgress)
    ELSE IF TimeProgress(bounds, time) # NoRatio THEN TimeProgress(bounds, time)
    ELSE IF selectedIndex >= length - 1 THEN Fraction(1, 1)
    ELSE Fraction(0, 1)

\* the progress of the active segment
ProgressAt(bounds, validProgress, selectedIndex, length, time) ==
    IF TimeProgress(bounds, time) # NoRatio THEN TimeProgress(bounds, time)
    ELSE IF ExplicitProgress(validProgress) # NoRatio THEN ExplicitProgress(validProgress)
    ELSE IF selectedIndex >= length - 1 THEN Fraction(1, 1)
    ELSE Fraction(0, 1)

\* from + (to - from) * progress
Lerp(from, to, progress) ==
    SignedFraction(from * progress.d + (to - from) * progress.n, progress.d)

\* { x: dx / length, y: dy / length } with length = Math.hypot(dx, dy) || 1,
\* kept as the vector and the square of the length it is divided by
DirectionOf(dx, dy) ==
    [dx |-> dx, dy |-> dy,
     lengthSquared |-> IF dx * dx + dy * dy = 0 THEN 1 ELSE dx * dx + dy * dy]

\* the value returned for the active segment; the fields copied from
\* segmentInfo are left out
PositionOn(segmentInfo, progress, selectedIndex, length) ==
    [x |-> Lerp(segmentInfo.fromCenter.x, segmentInfo.toCenter.x, progress),
     y |-> Lerp(segmentInfo.fromCenter.y, segmentInfo.toCenter.y, progress),
     direction |-> DirectionOf(segmentInfo.toCenter.x - segmentInfo.fromCenter.x,
                               segmentInfo.toCenter.y - segmentInfo.fromCenter.y),
     progress |-> progress,
     segmentIndex |-> selectedIndex,
     totalSegments |-> length,
     timeBounds |-> segmentInfo.timeBounds]

\* an interpolation that returns null as soon as one endpoint is unresolved
PositionOrNone(segments, flight, ship, selectedIndex, time) ==
    IF segments[selectedIndex + 1].fromCenter = NoPoint
       \/ segments[selectedIndex + 1].toCenter = NoPoint
    THEN NoPosition
    ELSE PositionOn(segments[selectedIndex + 1],
                    ProgressAt(segments[selectedIndex + 1].timeBounds,
                               SelectSeq(<<ProgressOf(flight), ship.Progress>>, IsValidProgress),
                               selectedIndex, Len(segments), time),
                    selectedIndex, Len(segments))

\* interpolateShipPosition once the active segment is chosen
PositionAt(segments, flight, ship, selectedIndex, time) ==
    IF segments[selectedIndex + 1].fromCenter = NoPoint
       \/ segments[selectedIndex + 1].toCenter = NoPoint
    THEN IF segments[selectedIndex + 1].toCenter # NoPoint
         THEN segments[selectedIndex + 1].toCenter
         ELSE segments[selectedIndex + 1].fromCenter
    ELSE PositionOn(segments[selectedIndex + 1],
                    ProgressAt(segments[selectedIndex + 1].timeBounds,
                               SelectSeq(<<ProgressOf(flight), ship.Progress>>, IsValidProgress),
                               selectedIndex, Len(segments), time),
                    selectedIndex, Len(segments))

\* time is what Date.now() returns during the call; an integral index always
\* names a segment, so the !segmentInfo return is not taken
interpolateShipPosition(ship, segments, flightContext, time) ==
    IF ship = NoShip \/ segments = <<>> THEN NoPosition
    ELSE PositionAt(segments, flightContext, ship,
                    selectedIndexOf(segmentIndexCandidates(ship, flightContext), Len(segments)),
                    time)

\* ---- the calls of interpolateShipPosition by renderOverlay

SegmentPool ==
    { [DepartureEpochMs |-> 2, ArrivalEpochMs |-> 4, DurationMs |-> NoNumber,
       DepartureTimeEpochMs |-> NoNumber, ArrivalTimeEpochMs |-> NoNumber],
      [DepartureEpochMs |-> 4, ArrivalEpochMs |-> 8, DurationMs |-> NoNumber,
       DepartureTimeEpochMs |-> NoNumber, ArrivalTimeEpochMs |-> NoNumber],
      [DepartureEpochMs |-> 2, ArrivalEpochMs |-> NoNumber, DurationMs |-> 4,
       DepartureTimeEpochMs |-> NoNumber, ArrivalTimeEpochMs |-> NoNumber],
      [DepartureEpochMs |-> NoNumber, ArrivalEpochMs |-> NoNumber, DurationMs |-> NoNumber,
       DepartureTimeEpochMs |-> NoNumber, ArrivalTimeEpochMs |-> NoNumber],
      [DepartureEpochMs |-> 0, ArrivalEpochMs |-> 4, DurationMs |-> NoNumber,
       DepartureTimeEpochMs |-> NoNumber, ArrivalTimeEpochMs |-> NoNumber],
      [DepartureEpochMs |-> 4, ArrivalEpochMs |-> 2, DurationMs |-> NoNumber,
       DepartureTimeEpochMs |-> NoNumber, ArrivalTimeEpochMs |-> NoNumber] }

FlightContextPool ==
    { NoFlight,
      [CurrentSegmentIndex |-> NoNumber, Progress |-> NoRatio],
      [CurrentSegmentIndex |-> 0 - 1, Progress |-> NoRatio],
      [CurrentSegmentIndex |-> 0, Progress |-> [n |-> 3, d |-> 2]],
      [CurrentSegmentIndex |-> 5, Progress |-> NaNProgress],
      [CurrentSegmentIndex |-> NotANumber, Progress |-> [n |-> 1, d |-> 2]] }

FlightShipPool ==
    { NoShip,
      [CurrentSegmentIndex |-> NoNumber, Progress |-> NoRatio],
      [CurrentSegmentIndex |-> 1, Progress |-> [n |-> 0 - 1, d |-> 2]] }

MaxSegments == 2
MaxNow == 6

\* the segment pair renderOverlay pushes for a segment between two systems
SegmentPair(segment, index) ==
    [fromCenter |-> [x |-> 0, y |-> 0],
     toCenter |-> [x |-> 4, y |-> 2],
     segment |-> segment,
     index |-> index,
     timeBounds |-> getSegmentTimeBounds(segment)]

\* renderOverlay runs with the given arguments while Date.now() is time
Render(ship, segments, flight, time) ==
    /\ flightShip' = ship
    /\ segmentPairs' = segments
    /\ activeFlight' = flight
    /\ now' = time
    /\ position' = interpolateShipPosition(ship, segments, flight, time)

\* a flight snapshot with one segment pair more
AppendSegmentPair(segment) ==
    /\ Len(segmentPairs) < MaxSegments
    /\ Render(flightShip, Append(segmentPairs, SegmentPair(segment, Len(segmentPairs))),
              activeFlight, now)
    /\ UNCHANGED interpOthers

\* a call with one more segment info whose endpoints are given
AppendSegmentInfo(segment, from, to) ==
    /\ Len(segmentPairs) < MaxSegments
    /\ Render(flightShip,
              Append(segmentPairs,
                     [SegmentPair(segment, Len(segmentPairs)) EXCEPT
                         !.fromCenter = from, !.toCenter = to]),
              activeFlight, now)
    /\ UNCHANGED interpOthers

\* a flight snapshot with other hints
SetActiveFlight(flight) ==
    /\ flight # activeFlight
    /\ Render(flightShip, segmentPairs, flight, now)
    /\ UNCHANGED interpOthers

\* a ships snapshot with another record of the ship
SetFlightShip(ship) ==
    /\ ship # flightShip
    /\ Render(ship, segmentPairs, activeFlight, now)
    /\ UNCHANGED interpOthers

\* a refresh of the overlay at a later time
Interpolate(time) ==
    /\ time > now
    /\ Render(flightShip, segmentPairs, activeFlight, time)
    /\ UNCHANGED interpOthers

-----------------------------------------------------------------------------
(* LocationDetailExtractor: planetLookups and extractLocationDetails.         *)
(* A line entry is a string, [isString |-> TRUE, value], or an object with,   *)
(* of the fields the code reads, Type, Id, NaturalId, Name, PlanetNaturalId,  *)
(* SystemId, SystemNaturalId, StationId and StationName. env gathers what the *)
(* function reads from its closure: [names, nodes, lookups, planets].         *)

\* a || b || c: the first truthy operand, else the last one
RECURSIVE OrChain(_)
OrChain(values) ==
    IF Len(values) = 1 THEN Head(values)
    ELSE IF Truthy(Head(values)) THEN Head(values)
    ELSE OrChain(Tail(values))

\* the planets.forEach of planetLookups; tables is <<byId, byNaturalId>>
RECURSIVE LookupsFromPlanets(_, _)
LookupsFromPlanets(planets, tables) ==
    IF planets = <<>> THEN tables
    ELSE LookupsFromPlanets(Tail(planets),
            <<IF Truthy(Head(planets).PlanetId)
              THEN MapSet(tables[1], toLowerCase(Head(planets).PlanetId), Head(planets))
              ELSE tables[1],
              IF Truthy(Head(planets).PlanetNaturalId)
              THEN MapSet(tables[2], toUpperCase(Head(planets).PlanetNaturalId), Head(planets))
              ELSE tables[2]>>)

\* the planetLookups memo
BuildPlanetLookups(planets) ==
    [byId |-> LookupsFromPlanets(planets, <<EmptyMap, EmptyMap>>)[1],
     byNaturalId |-> LookupsFromPlanets(planets, <<EmptyMap, EmptyMap>>)[2]]

\* the variables of extractLocationDetails before the first entry
InitialDetails ==
    [systemId |-> Null, systemName |-> Null, systemNaturalId |-> Null,
     planetId |-> Null, planetNaturalId |-> Null, planetName |-> Null,
     stationId |-> Null, stationNaturalId |-> Null, stationName |-> Null,
     displayKind |-> "none", displayPriority |-> InfinitePriority, displayLabel |-> Null]

\* setDisplayCandidate that lets the latest label win
setLatestCandidate(acc, kind, label, priority) ==
    IF label = Null THEN acc
    ELSE [acc EXCEPT !.displayPriority = priority, !.displayKind = kind, !.displayLabel = label]

setDisplayCandidate(acc, kind, label, priority) ==
    IF label = Null THEN acc
    ELSE IF priority < acc.displayPriority
    THEN [acc EXCEPT !.displayPriority = priority, !.displayKind = kind, !.displayLabel = label]
    ELSE IF priority = acc.displayPriority /\ ~Truthy(acc.displayLabel)
    THEN [acc EXCEPT !.displayKind = kind, !.displayLabel = label]
    ELSE acc

\* resolveSystemId in the closure env
ResolveIn(env, cand) == resolveSystemId(env.names, env.nodes, env.lookups, cand)

\* systemNames?.[id] for an id that may be null
NameIn(env, id) == IF id = Null THEN Null ELSE SystemNameOf(env.names, id)

\* safeString(value) of resolvePlanetCandidate
RawOf(value) == IF value = Null THEN Null ELSE trim(value)

\* resolvePlanetCandidate finds a planet for value
ResolvesPlanet(env, value) ==
    /\ Truthy(RawOf(value))
    /\ \/ toLowerCase(RawOf(value)) \in DOMAIN env.planets.byId
       \/ toUpperCase(RawOf(value)) \in DOMAIN env.planets.byNaturalId

\* planetsById.get(...) || planetsByNaturalId.get(...)
PlanetEntryFor(env, value) ==
    IF toLowerCase(RawOf(value)) \in DOMAIN env.planets.byId
    THEN env.planets.byId[toLowerCase(RawOf(value))]
    ELSE env.planets.byNaturalId[toUpperCase(RawOf(value))]

\* applyPlanetEntry, the planet attributes
ApplyPlanetFields(acc, planetEntry, fallbackId, fallbackNaturalId) ==
    [acc EXCEPT
        !.planetId = IF ~Truthy(acc.planetId)
                     THEN (IF planetEntry.PlanetId # Null THEN planetEntry.PlanetId ELSE fallbackId)
                     ELSE acc.planetId,
        !.planetNaturalId = IF ~Truthy(acc.planetNaturalId)
                               /\ Truthy(OrChain(<<planetEntry.PlanetNaturalId, fallbackNaturalId>>))
                            THEN toUpperCase(OrChain(<<planetEntry.PlanetNaturalId, fallbackNaturalId>>))
                            ELSE acc.planetNaturalId]

\* applyPlanetEntry, the planet name, read after the planet attributes are set
ApplyPlanetName(acc, planetEntry, fallbackName) ==
    [acc EXCEPT
        !.planetName = IF ~Truthy(acc.planetName)
                          /\ Truthy(OrChain(<<planetEntry.PlanetName, fallbackName,
                                              acc.planetNaturalId, acc.planetId>>))
                       THEN OrChain(<<planetEntry.PlanetName, fallbackName,
                                      acc.planetNaturalId, acc.planetId, acc.planetName>>)
                       ELSE acc.planetName,
        !.systemNaturalId = IF ~Truthy(acc.systemNaturalId) /\ planetEntry.SystemNaturalId # Null
                            THEN planetEntry.SystemNaturalId
                            ELSE acc.systemNaturalId,
        !.systemId = IF ~Truthy(acc.systemId) /\ Truthy(planetEntry.SystemId)
                     THEN planetEntry.SystemId
                     ELSE acc.systemId]

\* applyPlanetEntry, the system name, read after systemNaturalId is set
ApplyPlanetSystemName(acc, env, planetEntry) ==
    [acc EXCEPT
        !.systemName = IF ~Truthy(acc.systemName) /\ Truthy(planetEntry.SystemId)
                       THEN OrChain(<<NameIn(env, planetEntry.SystemId),
                                      acc.systemNaturalId, acc.systemName>>)
                       ELSE acc.systemName]

\* applyPlanetEntry, its closing setDisplayCandidate
ApplyPlanetDisplay(acc, fallbackName) ==
    setDisplayCandidate(acc, "planet",
        OrChain(<<acc.planetName, fallbackName, acc.planetNaturalId, acc.planetId>>), 0)

\* applyPlanetEntry for a planet entry that was found
applyPlanetEntry(acc, env, planetEntry, fallbackId, fallbackNaturalId, fallbackName) ==
    ApplyPlanetDisplay(
        ApplyPlanetSystemName(
            ApplyPlanetName(
                ApplyPlanetFields(acc, planetEntry, fallbackId, fallbackNaturalId),
                planetEntry, fallbackName),
            env, planetEntry),
        fallbackName)

\* resolvePlanetCandidate for a value that names a planet
resolvePlanetCandidate(acc, env, value, fallbackName) ==
    applyPlanetEntry(acc, env, PlanetEntryFor(env, value), RawOf(value), RawOf(value),
                     OrChain(<<fallbackName, PlanetEntryFor(env, value).PlanetName, RawOf(value)>>))

station == <<"s","t","a","t","i","o","n">>
planet == <<"p","l","a","n","e","t">>

\* type of an object entry
TypeOf(entry) == IF entry.Type = Null THEN <<>> ELSE toLowerCase(entry.Type)

\* baseName of an object entry
BaseName(entry) ==
    OrChain(<<entry.Name,
              IF Truthy(entry.NaturalId) THEN toUpperCase(entry.NaturalId) ELSE Null,
              IF Truthy(entry.Id) THEN entry.Id ELSE Null>>)

\* applyStationEntry, the station attributes
ApplyStationFields(acc, entryObj) ==
    [acc EXCEPT
        !.stationId = IF ~Truthy(acc.stationId) /\ Truthy(OrChain(<<entryObj.StationId, entryObj.Id>>))
                      THEN OrChain(<<entryObj.StationId, entryObj.Id>>)
                      ELSE acc.stationId,
        !.stationNaturalId = IF ~Truthy(acc.stationNaturalId) /\ Truthy(entryObj.NaturalId)
                             THEN toUpperCase(entryObj.NaturalId)
                             ELSE acc.stationNaturalId]

\* applyStationEntry, the station name, read after the station attributes
ApplyStationName(acc, entryObj) ==
    [acc EXCEPT
        !.stationName = IF ~Truthy(acc.stationName)
                           /\ Truthy(OrChain(<<entryObj.Name, entryObj.StationName,
                                               acc.stationNaturalId, acc.stationId>>))
                        THEN OrChain(<<entryObj.Name, entryObj.StationName,
                                       acc.stationNaturalId, acc.stationId>>)
                        ELSE acc.stationName]

\* applyStationEntry, the system attributes
ApplyStationSystem(acc, env, entryObj) ==
    [acc EXCEPT
        !.systemId = IF ~Truthy(acc.systemId)
                        /\ Truthy(ResolveIn(env, OrChain(<<entryObj.SystemId, entryObj.SystemNaturalId>>)))
                     THEN ResolveIn(env, OrChain(<<entryObj.SystemId, entryObj.SystemNaturalId>>))
                     ELSE acc.systemId,
        !.systemNaturalId = IF ~Truthy(acc.systemNaturalId) /\ Truthy(entryObj.SystemNaturalId)
                            THEN entryObj.SystemNaturalId
                            ELSE acc.systemNaturalId]

\* if (!systemName && systemId) systemName = systemNames?.[systemId] || systemNaturalId || systemName
FillSystemName(acc, env) ==
    [acc EXCEPT
        !.systemName = IF ~Truthy(acc.systemName) /\ Truthy(acc.systemId)
                       THEN OrChain(<<NameIn(env, acc.systemId), acc.systemNaturalId, acc.systemName>>)
                       ELSE acc.systemName]

\* applyStationEntry, its closing setDisplayCandidate
ApplyStationDisplay(acc) ==
    setDisplayCandidate(acc, "station",
        OrChain(<<acc.stationName, acc.stationNaturalId, acc.stationId>>), 1)

applyStationEntry(acc, env, entryObj) ==
    ApplyStationDisplay(
        FillSystemName(ApplyStationSystem(ApplyStationName(ApplyStationFields(acc, entryObj),
                                                           entryObj),
                                          env, entryObj),
                       env))

\* a string entry that sets the system name whether or not there is one
ApplyStringSystemAnew(acc, env, value) ==
    [acc EXCEPT
        !.systemId = IF Truthy(ResolveIn(env, value)) /\ ~Truthy(acc.systemId)
                     THEN ResolveIn(env, value) ELSE acc.systemId,
        !.systemName = OrChain(<<NameIn(env, ResolveIn(env, value)), value>>)]

\* a string entry that names no planet
ApplyStringSystem(acc, env, value) ==
    [acc EXCEPT
        !.systemId = IF Truthy(ResolveIn(env, value)) /\ ~Truthy(acc.systemId)
                     THEN ResolveIn(env, value) ELSE acc.systemId,
        !.systemName = IF ~Truthy(acc.systemName)
                       THEN OrChain(<<NameIn(env, ResolveIn(env, value)), value>>)
                       ELSE acc.systemName]

\* the setDisplayCandidate('system', ...) of a string entry, which is made
\* only when the entry set systemName
ApplyStringDisplay(before, acc) ==
    IF ~Truthy(before.systemName) /\ Truthy(acc.systemName)
    THEN setDisplayCandidate(acc, "system", acc.systemName, 2)
    ELSE acc

ApplyStringEntry(acc, env, value) ==
    IF ResolvesPlanet(env, value) THEN resolvePlanetCandidate(acc, env, value, Null)
    ELSE ApplyStringDisplay(acc, ApplyStringSystem(acc, env, value))

\* an object entry, the branch for type 'planet'
ApplyPlanetType(acc, entry) ==
    IF TypeOf(entry) # planet THEN acc
    ELSE [acc EXCEPT
            !.planetId = IF ~Truthy(acc.planetId) /\ Truthy(entry.Id)
                         THEN entry.Id ELSE acc.planetId,
            !.planetNaturalId = IF ~Truthy(acc.planetNaturalId) /\ Truthy(entry.NaturalId)
                                THEN toUpperCase(entry.NaturalId) ELSE acc.planetNaturalId,
            !.planetName = IF ~Truthy(acc.planetName) /\ Truthy(BaseName(entry))
                           THEN BaseName(entry) ELSE acc.planetName]

\* planetIdentifiers of an object entry
planetIdentifiers(entry) == <<entry.PlanetNaturalId, entry.Id, entry.NaturalId>>

\* planetIdentifiers.some(...): the identifiers are tried until one names a planet
RECURSIVE ApplyPlanetIdentifiers(_, _, _, _)
ApplyPlanetIdentifiers(acc, env, entry, identifiers) ==
    IF identifiers = <<>>
    THEN IF TypeOf(entry) = planet
         THEN setDisplayCandidate(acc, "planet",
                  OrChain(<<acc.planetName, BaseName(entry), acc.planetNaturalId, acc.planetId>>), 0)
         ELSE acc
    ELSE IF ResolvesPlanet(env, Head(identifiers))
         THEN FillSystemName(resolvePlanetCandidate(acc, env, Head(identifiers), entry.Name), env)
    ELSE ApplyPlanetIdentifiers(acc, env, entry, Tail(identifiers))

\* the candidates loop of an object entry: the first candidate that resolves
RECURSIVE FirstResolved(_, _)
FirstResolved(env, candidateIds) ==
    IF candidateIds = <<>> THEN Null
    ELSE IF Truthy(ResolveIn(env, Head(candidateIds))) THEN ResolveIn(env, Head(candidateIds))
    ELSE FirstResolved(env, Tail(candidateIds))

\* an object entry, systemNaturalId and systemId
ApplyObjectSystem(acc, env, entry) ==
    [acc EXCEPT
        !.systemNaturalId = IF ~Truthy(acc.systemNaturalId) /\ Truthy(entry.SystemNaturalId)
                            THEN entry.SystemNaturalId ELSE acc.systemNaturalId,
        !.systemId = IF ~Truthy(acc.systemId)
                        /\ Truthy(FirstResolved(env, <<entry.SystemId, entry.SystemNaturalId,
                                                      entry.Id, entry.NaturalId, entry.Id>>))
                     THEN FirstResolved(env, <<entry.SystemId, entry.SystemNaturalId,
                                               entry.Id, entry.NaturalId, entry.Id>>)
                     ELSE acc.systemId]

\* an object entry, systemName, read after systemNaturalId and systemId
ApplyObjectSystemName(acc, env, entry) ==
    [acc EXCEPT
        !.systemName = IF ~Truthy(acc.systemName)
                       THEN OrChain(<<NameIn(env, IF Truthy(acc.systemId) THEN acc.systemId ELSE Null),
                                      acc.systemNaturalId,
                                      OrChain(<<BaseName(entry), acc.systemNaturalId, acc.systemId>>),
                                      acc.systemName>>)
                       ELSE acc.systemName]

\* an object entry, its closing setDisplayCandidate
ApplyObjectDisplay(acc) ==
    IF Truthy(acc.systemName) THEN setDisplayCandidate(acc, "system", acc.systemName, 2) ELSE acc

ApplyObjectEntry(acc, env, entry) ==
    ApplyObjectDisplay(
        ApplyObjectSystemName(
            ApplyObjectSystem(
                ApplyPlanetIdentifiers(
                    ApplyPlanetType(IF TypeOf(entry) = station
                                    THEN applyStationEntry(acc, env, entry) ELSE acc,
                                    entry),
                    env, entry, planetIdentifiers(entry)),
                env, entry),
            env, entry))

\* entries.forEach
RECURSIVE ApplyEntries(_, _, _)
ApplyEntries(acc, env, entries) ==
    IF entries = <<>> THEN acc
    ELSE ApplyEntries(IF Head(entries).isString
                      THEN ApplyStringEntry(acc, env, Head(entries).value)
                      ELSE ApplyObjectEntry(acc, env, Head(entries)),
                      env, Tail(entries))

\* extractSystemId
RECURSIVE extractSystemId(_, _)
extractSystemId(env, entries) ==
    IF entries = <<>> THEN Null
    ELSE IF Head(entries).isString /\ Truthy(ResolveIn(env, Head(entries).value))
         THEN ResolveIn(env, Head(entries).value)
    ELSE IF ~Head(entries).isString
            /\ Truthy(FirstResolved(env, <<Head(entries).SystemId, Head(entries).SystemNaturalId,
                                          Head(entries).NaturalId, Head(entries).Id>>))
         THEN FirstResolved(env, <<Head(entries).SystemId, Head(entries).SystemNaturalId,
                                   Head(entries).NaturalId, Head(entries).Id>>)
    ELSE extractSystemId(env, Tail(entries))

\* if (!systemId) the fallback to extractSystemId(lines)
ApplyFallbackSystem(acc, env, entries) ==
    IF ~Truthy(acc.systemId) /\ Truthy(extractSystemId(env, entries))
    THEN [acc EXCEPT !.systemId = extractSystemId(env, entries)]
    ELSE acc

\* if (!systemName && systemId) after the fallback
ApplyFallbackName(acc, env) ==
    IF ~Truthy(acc.systemName) /\ Truthy(acc.systemId)
    THEN setDisplayCandidate(
             [acc EXCEPT !.systemName = OrChain(<<NameIn(env, acc.systemId),
                                                  acc.systemNaturalId, acc.systemId>>)],
             "system",
             OrChain(<<NameIn(env, acc.systemId), acc.systemNaturalId, acc.systemId>>), 2)
    ELSE acc

\* if (displayLabel == null) the display derived from the attributes
ApplyFallbackDisplay(acc) ==
    IF acc.displayLabel # Null THEN acc
    ELSE IF Truthy(OrChain(<<acc.planetName, acc.planetNaturalId, acc.planetId>>))
    THEN [acc EXCEPT !.displayKind = "planet", !.displayPriority = 0,
                     !.displayLabel = OrChain(<<acc.planetName, acc.planetNaturalId, acc.planetId>>)]
    ELSE IF Truthy(OrChain(<<acc.stationName, acc.stationNaturalId, acc.stationId>>))
    THEN [acc EXCEPT !.displayKind = "station", !.displayPriority = 1,
                     !.displayLabel = OrChain(<<acc.stationName, acc.stationNaturalId, acc.stationId>>)]
    ELSE IF Truthy(acc.systemName)
    THEN [acc EXCEPT !.displayKind = "system", !.displayPriority = 2,
                     !.displayLabel = acc.systemName]
    ELSE acc

\* the object extractLocationDetails returns
DetailsOf(acc) ==
    [systemId |-> acc.systemId, systemName |-> acc.systemName,
     systemNaturalId |-> acc.systemNaturalId,
     planetId |-> acc.planetId, planetNaturalId |-> acc.planetNaturalId,
     planetName |-> acc.planetName,
     stationId |-> acc.stationId, stationNaturalId |-> acc.stationNaturalId,
     stationName |-> acc.stationName,
     displayName |-> OrChain(<<acc.displayLabel, acc.planetName, acc.stationName, acc.systemName,
                               acc.systemNaturalId, acc.systemId, Null>>),
     displayKind |-> acc.displayKind,
     displayPriority |-> IF acc.displayPriority = InfinitePriority THEN NoPriority
                         ELSE acc.displayPriority]

extractLocationDetails(env, entries) ==
    DetailsOf(ApplyFallbackDisplay(ApplyFallbackName(
        ApplyFallbackSystem(ApplyEntries(InitialDetails, env, entries), env, entries), env)))

\* ---- the calls of extractLocationDetails

\* the closure of the latest render
Env == [names |-> systemNames, nodes |-> graphNodes, lookups |-> systemLookups,
        planets |-> planetLookups]

IdP1 == <<"p","1">>

\* the planet "Pla" of system SysId1, natural id "x-1a"
PlanetPool ==
    { [PlanetId |-> IdP1, PlanetNaturalId |-> <<"x","-","1","a">>, PlanetName |-> <<"P","l","a">>,
       SystemId |-> SysId1, SystemNaturalId |-> Null] }

StringEntry(value) == [isString |-> TRUE, value |-> value]

\* an object entry without any of the fields
ObjectEntry ==
    [isString |-> FALSE, Type |-> Null, Id |-> Null, NaturalId |-> Null, Name |-> Null,
     PlanetNaturalId |-> Null, SystemId |-> Null, SystemNaturalId |-> Null,
     StationId |-> Null, StationName |-> Null]

EntryPool ==
    { StringEntry(<<"M","o">>),
      StringEntry(IdP1),
      [ObjectEntry EXCEPT !.Type = <<"S","T","A","T","I","O","N">>, !.NaturalId = <<"a","n","t">>,
                          !.Name = <<"S","t">>, !.SystemId = SysId1],
      [ObjectEntry EXCEPT !.Type = <<"P","l","a","n","e","t">>, !.Name = <<"P","l">>],
      [ObjectEntry EXCEPT !.PlanetNaturalId = <<"X","-","1","A">>],
      [ObjectEntry EXCEPT !.SystemId = SysId1],
      [ObjectEntry EXCEPT !.Type = station],
      [ObjectEntry EXCEPT !.Type = station, !.Id = IdP1, !.SystemId = SysId1] }

MaxEntries == 2

\* extractLocationDetails is called with the lines of the latest call and one
\* entry more
AppendLine(entry) ==
    /\ Len(lines) < MaxEntries
    /\ lines' = Append(lines, entry)
    /\ location' = extractLocationDetails(Env, lines')
    /\ UNCHANGED <<planetData, planetLookups, resolveVars, extractOthers>>

\* systemNames, universeData and planetData arrive again, equal to the ones
\* before: systemLookups and planetLookups are built again
RefetchUniverse ==
    /\ systemLookups' = BuildSystemLookups(systemNames, universeData)
    /\ planetLookups' = BuildPlanetLookups(planetData)
    /\ scoreCacheWrites' = {}
    /\ refetched' = TRUE
    /\ UNCHANGED <<systemNames, universeData, graphNodes, candidate, resolved,
                   planetData, lines, location,
                   storageData, ships, storageIndex, shipLoadInfo, storageRecordScoreCache,
                   contractVars, selectVars, interpVars, renderVars, contextVars>>

-----------------------------------------------------------------------------
(* renderOverlay: one pass over the flights and over the ships.               *)
(* The pass runs with the graph loaded, selectedShipId '__all__' and the      *)
(* partner filter off, on flights without Origin and Destination labels. It   *)
(* leaves the flight diagnostics, the ids of the ships in flight, the         *)
(* interpolated position of each active flight and the keys of the ships      *)
(* handed on as idle; the SVG elements it draws are not part of the state.    *)
(* renderOverlay has no try around its loops: an exception ends the pass.     *)

GenFreight6 == <<"G","e","n","F","r","e","i","g","h","t"," ","6">>

\* shipsById.get(key) || null: the last ship of the list that is filed under key
RECURSIVE shipsByIdGet(_, _)
shipsByIdGet(list, key) ==
    IF list = <<>> \/ key = Null THEN NoShip
    ELSE IF key = list[Len(list)].ShipId \/ key = list[Len(list)].Name THEN list[Len(list)]
    ELSE shipsByIdGet(SubSeq(list, 1, Len(list) - 1), key)

\* the condition of the 'GenFreight 6' block
IsGenFreight6(ship, flight) ==
    \/ ship # NoShip /\ ship.Name = GenFreight6
    \/ flight.ShipId = GenFreight6

\* aStart / bStart of the comparator of segmentsRaw.sort
StartOf(segment) ==
    IF segment = NoSegment THEN 0
    ELSE IF segment.DepartureTimeEpochMs # NoNumber THEN segment.DepartureTimeEpochMs
    ELSE IF segment.ArrivalTimeEpochMs # NoNumber THEN segment.ArrivalTimeEpochMs
    ELSE 0

RECURSIVE InsertSegment(_, _)
InsertSegment(sorted, segment) ==
    IF sorted = <<>> THEN <<segment>>
    ELSE IF StartOf(segment) < StartOf(Head(sorted)) THEN <<segment>> \o sorted
    ELSE <<Head(sorted)>> \o InsertSegment(Tail(sorted), segment)

\* segmentsRaw.sort((a, b) => aStart - bStart), a stable sort
RECURSIVE sortSegments(_)
sortSegments(segments) ==
    IF segments = <<>> THEN <<>>
    ELSE InsertSegment(sortSegments(SubSeq(segments, 1, Len(segments) - 1)),
                       segments[Len(segments)])

\* loc?.systemId
SystemOf(loc) == IF loc = NoDetail THEN Null ELSE loc.systemId

\* getSystemCenter: the centre of the node of a system on the map, null
\* for a system without a node
getSystemCenter(nodes, systemId) ==
    IF systemId \notin nodes THEN NoPoint
    ELSE IF systemId = SysId1 THEN [x |-> 0, y |-> 0]
    ELSE [x |-> 4, y |-> 2]

\* the locals of the flights loop before segmentsRaw.forEach
NoPairs ==
    [pairs |-> <<>>, previous |-> NoDetail, first |-> NoDetail, final |-> NoDetail,
     stlOnly |-> TRUE, error |-> "none"]

EffectiveFrom(acc, origin) ==
    IF Truthy(origin.systemId) THEN origin
    ELSE IF Truthy(SystemOf(acc.previous)) THEN acc.previous
    ELSE origin

\* [destinationLocation, originLocation, previousLocation].find(...) || null
EffectiveTo(acc, origin, destination) ==
    IF Truthy(destination.systemId) THEN destination
    ELSE IF Truthy(origin.systemId) THEN origin
    ELSE IF Truthy(SystemOf(acc.previous)) THEN acc.previous
    ELSE NoDetail

\* previousLocation after the segment
NextPrevious(acc, destination, to) ==
    IF Truthy(destination.systemId) THEN destination
    ELSE IF to # NoDetail THEN to
    ELSE acc.previous

\* the segment leads from one system to another
Crosses(from, to) ==
    /\ Truthy(from.systemId)
    /\ Truthy(SystemOf(to))
    /\ from.systemId # SystemOf(to)

\* the segment is pushed: it crosses, and both systems have a centre
Joins(from, to, nodes) ==
    /\ Crosses(from, to)
    /\ getSystemCenter(nodes, from.systemId) # NoPoint
    /\ getSystemCenter(nodes, to.systemId) # NoPoint

\* the object of segmentPairs.push
PairOf(segment, index, from, to, nodes) ==
    [fromId |-> from.systemId,
     toId |-> to.systemId,
     fromCenter |-> getSystemCenter(nodes, from.systemId),
     toCenter |-> getSystemCenter(nodes, to.systemId),
     segment |-> segment,
     index |-> index,
     timeBounds |-> getSegmentTimeBounds(segment),
     fromLocation |-> from,
     toLocation |-> to]

\* one round of segmentsRaw.forEach, the locations known
PairSegment(acc, segment, destination, from, to, nodes) ==
    [pairs |-> IF Joins(from, to, nodes)
               THEN Append(acc.pairs, PairOf(segment, Len(acc.pairs), from, to, nodes))
               ELSE acc.pairs,
     previous |-> NextPrevious(acc, destination, to),
     first |-> IF acc.first = NoDetail /\ Truthy(from.systemId) THEN from ELSE acc.first,
     final |-> IF \/ Truthy(destination.systemId)
                  \/ Truthy(destination.planetName)
                  \/ Truthy(destination.planetNaturalId)
               THEN destination
               ELSE acc.final,
     stlOnly |-> acc.stlOnly /\ ~Crosses(from, to),
     error |-> "none"]

LocateSegment(acc, segment, origin, destination, nodes) ==
    PairSegment(acc, segment, destination, EffectiveFrom(acc, origin),
                EffectiveTo(acc, origin, destination), nodes)

\* one round of segmentsRaw.forEach: segment.OriginLines of a null segment is
\* a TypeError
StepSegment(acc, segment, env) ==
    IF acc.error # "none" THEN acc
    ELSE IF segment = NoSegment THEN [acc EXCEPT !.error = "TypeError"]
    ELSE LocateSegment(acc, segment,
                       extractLocationDetails(env, segment.OriginLines),
                       extractLocationDetails(env, segment.DestinationLines),
                       env.nodes)

\* segmentsRaw.forEach
RECURSIVE PairSegments(_, _, _)
PairSegments(acc, segments, env) ==
    IF segments = <<>> THEN acc
    ELSE PairSegments(StepSegment(acc, Head(segments), env), Tail(segments), env)

\* firstLocation after the loop; the label location of a flight without
\* Origin is null
FirstLocationOf(acc) ==
    selectDisplayLocation(<<IF acc.first = NoDetail /\ acc.pairs # <<>>
                            THEN acc.pairs[1].fromLocation
                            ELSE acc.first,
                            NoDetail>>)

\* finalLocation after the loop
FinalLocationOf(acc) ==
    selectDisplayLocation(<<IF acc.final # NoDetail THEN acc.final
                            ELSE IF acc.pairs # <<>> THEN acc.pairs[Len(acc.pairs)].toLocation
                            ELSE IF Truthy(SystemOf(acc.previous)) THEN acc.previous
                            ELSE NoDetail,
                            NoDetail>>)

\* the state of a flight without segment pairs
StateWithoutPairs(flight, acc) ==
    IF /\ acc.stlOnly
       /\ flight.Segments # <<>>
       /\ \/ Truthy(SystemOf(FirstLocationOf(acc)))
          \/ Truthy(SystemOf(FinalLocationOf(acc)))
    THEN "stl-only"
    ELSE "skipped-no-segments"

\* the object of flightDiagnostics.push
Diagnostic(flight, state, count) ==
    [shipId |-> flight.ShipId, state |-> state, segments |-> count]

\* what the pass has left so far
NoOutput ==
    [diagnostics |-> <<>>, active |-> {}, positions |-> <<>>, idle |-> <<>>, error |-> "none",
     timed |-> {}, markers |-> <<>>]

\* ---- isFlightActive, by which the older copy of the component (lines 6 to
\* 1997 of the file) decides whether the flight is drawn and its ship id added
\* to activeShipIds; the copy in use adds the id of every flight with pairs

\* 2 * 60 * 1000 ms; the times of the model count minutes
timeToleranceMinutes == 2

\* the departures and arrivals computeFlightTiming collects; of the epoch
\* fields it reads from the flight record the flights of the model have none
BoundsOf(pairs, field) ==
    {pairs[i].timeBounds[field] : i \in {j \in 1..Len(pairs) : pairs[j].timeBounds[field] # NoNumber}}

SetMin(S) == CHOOSE x \in S : \A y \in S : x <= y
SetMax(S) == CHOOSE x \in S : \A y \in S : x >= y

computeFlightTiming(flight, pairs) ==
    [departure |-> IF BoundsOf(pairs, "departure") = {} THEN NoNumber
                   ELSE SetMin(BoundsOf(pairs, "departure")),
     arrival |-> IF BoundsOf(pairs, "arrival") = {} THEN NoNumber
                 ELSE SetMax(BoundsOf(pairs, "arrival"))]

\* record?.Status of a record that may be null or without the field
StatusField(record) ==
    IF record # NoShip /\ "Status" \in DOMAIN record THEN record.Status ELSE Null

\* flight?.Status ?? ship?.Status ?? null
statusRaw(flight, ship) ==
    IF StatusField(flight) # Null THEN StatusField(flight) ELSE StatusField(ship)

\* /arriv|dock|complete|idle|done/.test(statusText)
completedByStatus(flight, ship) ==
    /\ statusRaw(flight, ship) # Null
    /\ \E word \in {<<"a","r","r","i","v">>, <<"d","o","c","k">>,
                     <<"c","o","m","p","l","e","t","e">>, <<"i","d","l","e">>,
                     <<"d","o","n","e">>} :
           Includes(toLowerCase(statusRaw(flight, ship)), word)

\* the first of flight.Progress and ship.Progress that is a number
rawProgress(flight, ship) ==
    SelectSeq(<<flight.Progress, IF ship = NoShip THEN NoRatio ELSE ship.Progress>>,
              IsValidProgress)

\* numericProgress != null && numericProgress >= 0.999
completedByProgress(flight, ship) ==
    /\ rawProgress(flight, ship) # <<>>
    /\ rawProgress(flight, ship)[1].n * 1000 >= 999 * rawProgress(flight, ship)[1].d

\* a flight that counts as active whatever its times, progress and status
isAlwaysActive(flight, ship, pairs, time) == pairs # <<>>

isFlightActive(flight, ship, pairs, time) ==
    /\ ~(/\ computeFlightTiming(flight, pairs).departure # NoNumber
          /\ computeFlightTiming(flight, pairs).departure > time + timeToleranceMinutes)
    /\ ~(/\ computeFlightTiming(flight, pairs).arrival # NoNumber
          /\ computeFlightTiming(flight, pairs).arrival < time - timeToleranceMinutes)
    /\ ~completedByProgress(flight, ship)
    /\ ~completedByStatus(flight, ship)
    /\ pairs # <<>>

\* `if (ship) { ... if (interpolated) {` : the marker of a ship in flight
FlightMarkers(drawn, ship, interpolated) ==
    IF ship # NoShip /\ interpolated # NoPosition
    THEN Append(drawn, [kind |-> "flight", ship |-> ship])
    ELSE drawn

\* the flights loop for one flight, from the segment pairs on
EvaluateFlight(out, flight, ship, acc, time) ==
    IF acc.error # "none" THEN [out EXCEPT !.error = acc.error]
    ELSE IF acc.pairs = <<>>
    THEN [out EXCEPT !.diagnostics =
              Append(@, Diagnostic(flight, StateWithoutPairs(flight, acc),
                                   IF StateWithoutPairs(flight, acc) = "stl-only"
                                   THEN Len(flight.Segments) ELSE NoNumber))]
    ELSE [out EXCEPT !.diagnostics = Append(@, Diagnostic(flight, "active", Len(acc.pairs))),
                     !.active = IF Truthy(flight.ShipId) THEN @ \cup {flight.ShipId} ELSE @,
                     !.timed = IF Truthy(flight.ShipId) /\ isFlightActive(flight, ship, acc.pairs, time)
                               THEN @ \cup {flight.ShipId} ELSE @,
                     !.positions = Append(@, interpolateShipPosition(ship, acc.pairs, flight, time)),
                     !.markers = FlightMarkers(@, ship,
                                     interpolateShipPosition(ship, acc.pairs, flight, time))]

\* the flights loop for one flight, its ship looked up: the 'GenFreight 6' block
\* reads segmentPairs above the const that declares it, a ReferenceError
RenderFlightOf(out, flight, ship, env, time) ==
    IF IsGenFreight6(ship, flight) THEN [out EXCEPT !.error = "ReferenceError"]
    ELSE CHOOSE result \in { EvaluateFlight(out, flight, ship, acc, time) :
                                acc \in {PairSegments(NoPairs, sortSegments(flight.Segments), env)} } : TRUE

\* the body of flights.forEach for a flight that is not null
renderFlight(out, flight, list, env, time) ==
    IF out.error # "none" THEN out
    ELSE CHOOSE result \in { RenderFlightOf(out, flight, ship, env, time) :
                                ship \in {shipsByIdGet(list, flight.ShipId)} } : TRUE

\* flights.forEach
RECURSIVE RenderFlights(_, _, _, _, _)
RenderFlights(out, flightList, list, env, time) ==
    IF flightList = <<>> THEN out
    ELSE CHOOSE result \in { RenderFlights(next, Tail(flightList), list, env, time) :
                                next \in {renderFlight(out, Head(flightList), list, env, time)} } : TRUE

\* ship?.ShipId || ship?.Name
ShipKeyOf(ship) == IF Truthy(ship.ShipId) THEN ship.ShipId ELSE ship.Name

\* ships.forEach, up to the test of activeShipIds
RECURSIVE IdleShips(_, _)
IdleShips(list, active) ==
    IF list = <<>> THEN <<>>
    ELSE (IF Truthy(ShipKeyOf(Head(list))) /\ ShipKeyOf(Head(list)) \notin active
          THEN <<ShipKeyOf(Head(list))>> ELSE <<>>)
         \o IdleShips(Tail(list), active)

\* ship.CurrentSystemId of a ship record that has the field
CurrentSystemIdOf(ship) ==
    IF "CurrentSystemId" \in DOMAIN ship THEN ship.CurrentSystemId ELSE Null

\* getShipLocationSystemId and getShipLocationDetails for the ships of the
\* model, which carry no location but CurrentSystemId
getShipLocationSystemId(env, ship) ==
    resolveSystemId(env.names, env.nodes, env.lookups, CurrentSystemIdOf(ship))

\* flightsByShipId.get(key): the last flight of the list with that ShipId
RECURSIVE flightsByShipIdGet(_, _)
flightsByShipIdGet(flightList, key) ==
    IF flightList = <<>> \/ ~Truthy(key) THEN NoFlight
    ELSE IF flightList[Len(flightList)].ShipId = key THEN flightList[Len(flightList)]
    ELSE flightsByShipIdGet(SubSeq(flightList, 1, Len(flightList) - 1), key)

\* originLocation?.systemId || destinationLocation?.systemId of the first
\* segment of the ship's flight; the flights loop has thrown on a null segment
FlightSystemOf(env, shipFlight) ==
    IF shipFlight = NoFlight \/ shipFlight.Segments = <<>> THEN Null
    ELSE IF Truthy(SystemOf(extractLocationDetails(env, shipFlight.Segments[1].OriginLines)))
    THEN SystemOf(extractLocationDetails(env, shipFlight.Segments[1].OriginLines))
    ELSE SystemOf(extractLocationDetails(env, shipFlight.Segments[1].DestinationLines))

\* effectiveSystemId of the ships loop
effectiveSystemId(env, ship, flightList) ==
    IF Truthy(getShipLocationSystemId(env, ship)) THEN getShipLocationSystemId(env, ship)
    ELSE FlightSystemOf(env, flightsByShipIdGet(flightList, ship.ShipId))

\* ships.forEach after the test of activeShipIds: the idle marker is drawn
\* when the ship's system has a centre
RECURSIVE IdleMarkers(_, _, _, _, _)
IdleMarkers(drawn, list, active, flightList, env) ==
    IF list = <<>> THEN drawn
    ELSE IdleMarkers(
            IF /\ Truthy(ShipKeyOf(Head(list)))
               /\ ShipKeyOf(Head(list)) \notin active
               /\ Truthy(effectiveSystemId(env, Head(list), flightList))
               /\ getSystemCenter(env.nodes, effectiveSystemId(env, Head(list), flightList)) # NoPoint
            THEN Append(drawn, [kind |-> "idle", ship |-> Head(list)])
            ELSE drawn,
            Tail(list), active, flightList, env)

WithIdleShips(out, list, flightList, env) ==
    IF out.error # "none" THEN out
    ELSE [out EXCEPT !.idle = IdleShips(list, out.active),
                     !.markers = IdleMarkers(@, list, out.active, flightList, env)]

\* one pass: flight.ShipId of a null flight is a TypeError while flightsByShipId
\* is filled, before the loops
renderOverlay(flightList, list, env, time) ==
    IF \E i \in 1..Len(flightList) : flightList[i] = NoFlight
    THEN [NoOutput EXCEPT !.error = "TypeError"]
    ELSE CHOOSE result \in { WithIdleShips(out, list, flightList, env) :
                                out \in {RenderFlights(NoOutput, flightList, list, env, time)} } : TRUE

\* ---- the passes of renderOverlay

LineOfSystem(systemId) == <<[ObjectEntry EXCEPT !.SystemId = systemId]>>

\* a segment with the lines and the times given
Leg(originLines, destinationLines, departure, arrival) ==
    [OriginLines |-> originLines, DestinationLines |-> destinationLines,
     DepartureEpochMs |-> NoNumber, ArrivalEpochMs |-> NoNumber, DurationMs |-> NoNumber,
     DepartureTimeEpochMs |-> departure, ArrivalTimeEpochMs |-> arrival]

LegOut == Leg(LineOfSystem(SysId1), LineOfSystem(SysId2), 2, 4)
LegBack == Leg(<<>>, <<StringEntry(<<"M","o">>)>>, 4, 8)
LegWithin == Leg(LineOfSystem(SysId1), LineOfSystem(SysId1), NoNumber, NoNumber)
LegNowhere == Leg(<<>>, <<>>, NoNumber, NoNumber)

\* a flight without hints
Flight(shipId, segments) ==
    [ShipId |-> shipId, Segments |-> segments,
     CurrentSegmentIndex |-> NoNumber, Progress |-> NoRatio]

IdG == <<"g">>

FlightPool ==
    { Flight(IdA, <<LegOut>>),
      [Flight(IdB, <<LegBack, LegOut>>) EXCEPT !.CurrentSegmentIndex = 1],
      Flight(IdA, <<LegWithin>>),
      Flight(Null, <<>>),
      Flight(IdB, <<LegNowhere>>),
      Flight(IdB, <<LegOut, NoSegment>>),
      NoFlight,
      Flight(GenFreight6, <<LegOut>>),
      Flight(IdG, <<LegOut>>) }

FleetSnapshots ==
    { <<>>,
      <<BareShip(IdA, IdX, Null), BareShip(IdB, Null, Null)>>,
      <<BareShip(IdB, Null, Null), BareShip(IdG, GenFreight6, Null)>>,
      <<BareShip(Null, Null, Null),
        [BareShip(IdA, Null, Null) EXCEPT !.Progress = [n |-> 1, d |-> 2]]>> }

MaxFlights == 2

\* the times of the passes: before, within and after the legs
RefreshTimes == {0, 3, 6}

\* renderOverlay runs on the flights given and the ships of the next state,
\* while Date.now() is time
RenderPass(flightList, time) ==
    /\ flights' = flightList
    /\ now' = time
    /\ \E out \in {renderOverlay(flightList, ships', Env, time)} :
           /\ flightDiagnostics' = out.diagnostics
           /\ activeShipIds' = out.active
           /\ flightPositions' = out.positions
           /\ idleShipIds' = out.idle
           /\ renderError' = out.error
           /\ timedActiveShipIds' = out.timed
           /\ markers' = out.markers

\* setFlights with a snapshot that has one flight more
AppendFlight(flight) ==
    /\ Len(flights) < MaxFlights
    /\ \A i \in 1..Len(flights) : flights[i] # flight
    /\ UNCHANGED <<storageVars, contractVars>>
    /\ RenderPass(Append(flights, flight), now)
    /\ UNCHANGED renderOthers

\* setShips with a whole snapshot
SetFleet(list) ==
    /\ ships # list
    /\ Rebuild(storageData, list, contracts)
    /\ RenderPass(flights, now)
    /\ UNCHANGED renderOthers

\* a refresh of the overlay at a later time
Refresh(time) ==
    /\ time > now
    /\ UNCHANGED <<storageVars, contractVars>>
    /\ RenderPass(flights, time)
    /\ UNCHANGED renderOthers

-----------------------------------------------------------------------------
(* GraphProvider: the data-fetch effect of the three copies of                *)
(* GraphContext.js and the Firestore snapshot effect of the third.            *)
(* Copy 1 (part_005) depends on authToken alone and asks for the data of a    *)
(* fixed user; copy 2 (part_004, lines 209 to 474) depends on authToken and   *)
(* userName and also fetches contracts; copy 3 (part_004, lines 475 to 775)   *)
(* adds the SIL tracker key, contractSnapshot and the Firestore listener.     *)
(* A render with new context values, the cleanup of the previous run of the   *)
(* effect and the new run are one step. Firebase is configured.               *)

\* SIL_TRACKER_API_KEY and SIL_TRACKER_USERNAME as the build configures them
SIL_TRACKER_API_KEY == <<"s","i","l">>
SIL_TRACKER_USERNAME == <<"O","p","t">>

\* the user the requests of copy 1 name
OptimizedFunction == <<"O","p","t">>

Kinds == {"ships", "flights", "storage", "contracts"}

NoRequest == [isNull |-> TRUE]

NoSnapshot == [isNull |-> TRUE]

\* typeof authToken === 'string' ? authToken.trim() : ''
headerValue(token) == IF token = Null THEN <<>> ELSE trim(token)

\* rawUserName of copy 3, userName of copy 2
rawUserName(copy, token, user) ==
    IF copy = 3 /\ token = SIL_TRACKER_API_KEY THEN SIL_TRACKER_USERNAME ELSE user

\* typeof rawUserName === 'string' ? rawUserName.trim() : ''
normalizedUserName(copy, token, user) ==
    IF rawUserName(copy, token, user) = Null THEN <<>>
    ELSE trim(rawUserName(copy, token, user))

\* the run of the effect returns before it builds the headers
ReturnsEarly(copy, token, user) ==
    \/ ~Truthy(token)
    \/ copy # 1 /\ normalizedUserName(copy, token, user) = <<>>
    \/ headerValue(token) = <<>>

\* a run of the effect that resets nothing
ResetNothing(copy, token, user) == {}

\* the states the run of the effect sets to [] ("snapshot" is contractSnapshot)
ResetStates(copy, token, user) ==
    IF copy = 1
    THEN IF ~Truthy(token) THEN {"ships", "flights", "storage"}
         ELSE IF headerValue(token) = <<>> THEN {"ships", "flights"}
         ELSE {}
    ELSE IF copy = 2
    THEN IF ReturnsEarly(copy, token, user) THEN Kinds ELSE {}
    ELSE IF ReturnsEarly(copy, token, user) THEN Kinds \cup {"snapshot"}
    ELSE {"contracts", "snapshot"}

\* the requests the run of the effect sends; fetchContracts of copy 3 returns
\* at once under the SIL tracker key
StartedKinds(copy, token, user) ==
    IF ReturnsEarly(copy, token, user) THEN {}
    ELSE IF copy = 1 THEN {"ships", "flights", "storage"}
    ELSE IF copy = 3 /\ token = SIL_TRACKER_API_KEY THEN {"ships", "flights", "storage"}
    ELSE Kinds

\* the user in the URL of the requests
RequestedUser(copy, token, user) ==
    IF copy = 1 THEN OptimizedFunction ELSE normalizedUserName(copy, token, user)

\* the dependencies of the data-fetch effect changed with the render
DependenciesChanged(copy, token, user) ==
    \/ token # contextAuthToken
    \/ copy # 1 /\ user # contextUserName

\* what the server holds for a user
DataOf(kind, user) == <<[Kind |-> kind, Owner |-> user]>>

\* the bodies a request may be answered with: an array, an object with the
\* array under the field of the kind, another object, or no usable response
Outcomes == {"array", "wrapped", "object", "failed"}

\* the payload the handler extracts: data itself when it is an array, else
\* the array under data.Ships / Flights / Storage / Contracts, else []
PayloadOf(outcome, request) ==
    IF outcome \in {"array", "wrapped"} THEN DataOf(request.kind, request.user) ELSE <<>>

\* a cleanup that leaves isMounted as it is
NoCleanup(flags, run) == flags

\* isMounted of the runs after the cleanup of run
Cleanup(flags, run) == flags \ {run}

\* the state named kind after the effect ran
AfterEffect(kind, current, copy, token, user) ==
    IF kind \in ResetStates(copy, token, user) THEN <<>> ELSE current

\* the data-fetch effect runs for the context values given: the cleanup of the
\* previous run, then the body
RunDataEffect(token, user) ==
    /\ effectRuns' = effectRuns + 1
    /\ isMounted' = Cleanup(isMounted, effectRuns) \cup {effectRuns + 1}
    /\ requests' = requests \cup
          { [kind |-> kind, run |-> effectRuns + 1,
             user |-> RequestedUser(graphCopy, token, user),
             auth |-> <<token, user>>] :
                kind \in StartedKinds(graphCopy, token, user) }
    /\ providerShips' = AfterEffect("ships", providerShips, graphCopy, token, user)
    /\ providerFlights' = AfterEffect("flights", providerFlights, graphCopy, token, user)
    /\ providerStorageData' = AfterEffect("storage", providerStorageData, graphCopy, token, user)
    /\ providerContracts' = AfterEffect("contracts", providerContracts, graphCopy, token, user)
    /\ contractSnapshot' = AfterEffect("snapshot", contractSnapshot, graphCopy, token, user)

\* the Firestore effect of copy 3 runs when authToken changed: the listener of
\* the previous run is detached, a new one attached under the SIL tracker key
RunSnapshotEffect(token) ==
    IF graphCopy = 3 /\ token # contextAuthToken
    THEN /\ subscribed' = (token = SIL_TRACKER_API_KEY)
         /\ lastSnapshot' = NoSnapshot
    ELSE UNCHANGED <<subscribed, lastSnapshot>>

\* the provider renders with new context values and its effects run
RenderWith(token, user) ==
    /\ contextAuthToken' = token
    /\ contextUserName' = user
    /\ IF DependenciesChanged(graphCopy, token, user)
       THEN RunDataEffect(token, user)
       ELSE UNCHANGED <<effectRuns, isMounted, requests, providerShips, providerFlights,
                        providerStorageData, providerContracts, contractSnapshot>>
    /\ RunSnapshotEffect(token)
    /\ UNCHANGED <<graphCopy, mounted, handled>>

MaxRuns == 3
MaxInFlight == 5

\* the requests of one more run of the effect stay within the bounds
WithinBounds(token, user) ==
    /\ effectRuns < MaxRuns
    /\ Cardinality(requests) + Cardinality(StartedKinds(graphCopy, token, user)) <= MaxInFlight

\* AuthProvider's mount effect hands on the credentials it found stored; it
\* runs once, right after the providers mounted
RestoreSession(token, user) ==
    /\ mounted
    /\ effectRuns = 1
    /\ contextAuthToken = Null /\ contextUserName = Null
    /\ Truthy(token)
    /\ RenderWith(token, user)
    /\ UNCHANGED providerOthers

\* login, loginWithApiKey or logout of AuthProvider changed the context value:
\* a token is trimmed and not empty, or null together with the user name
AuthChange(token, user) ==
    /\ mounted
    /\ WithinBounds(token, user)
    /\ <<token, user>> # <<contextAuthToken, contextUserName>>
    /\ IF token = Null THEN user = Null ELSE token = trim(token) /\ token # <<>>
    /\ RenderWith(token, user)
    /\ UNCHANGED providerOthers

\* the state named kind after the response to request was handled
AfterResponse(kind, current, request, outcome) ==
    IF request.run \notin isMounted THEN current
    ELSE IF kind = request.kind THEN PayloadOf(outcome, request)
    ELSE IF kind = "snapshot" /\ request.kind = "contracts" /\ graphCopy = 3
    THEN PayloadOf(outcome, request)
    ELSE current

\* the response to a request arrives, or the request fails
Respond(request, outcome) ==
    /\ request \in requests
    /\ requests' = requests \ {request}
    /\ handled' = [run |-> request.run,
                   changed |-> request.auth # <<contextAuthToken, contextUserName>>,
                   unmounted |-> ~mounted,
                   wrote |-> request.run \in isMounted]
    /\ providerShips' = AfterResponse("ships", providerShips, request, outcome)
    /\ providerFlights' = AfterResponse("flights", providerFlights, request, outcome)
    /\ providerStorageData' = AfterResponse("storage", providerStorageData, request, outcome)
    /\ providerContracts' = AfterResponse("contracts", providerContracts, request, outcome)
    /\ contractSnapshot' = AfterResponse("snapshot", contractSnapshot, request, outcome)
    /\ UNCHANGED <<graphCopy, mounted, contextAuthToken, contextUserName, effectRuns,
                   isMounted, subscribed, lastSnapshot>>
    /\ UNCHANGED providerOthers

\* Array.isArray(data?.contracts) ? data.contracts : [] for the document a
\* snapshot holds: none, one without a contracts array, or one with the list
snapshotContracts(document) ==
    IF document = NoSnapshot \/ ~document.isArray THEN <<>> ELSE document.contracts

\* Firestore delivers the snapshots/contracts document to the listener
DeliverSnapshot(document) ==
    /\ subscribed
    /\ providerContracts' = snapshotContracts(document)
    /\ contractSnapshot' = snapshotContracts(document)
    /\ lastSnapshot' = [isNull |-> FALSE, contracts |-> snapshotContracts(document)]
    /\ UNCHANGED <<graphCopy, mounted, contextAuthToken, contextUserName, effectRuns,
                   isMounted, requests, handled, providerShips, providerFlights,
                   providerStorageData, subscribed>>
    /\ UNCHANGED providerOthers

\* the provider unmounts: the cleanups of both effects run
Unmount ==
    /\ mounted
    /\ mounted' = FALSE
    /\ isMounted' = Cleanup(isMounted, effectRuns)
    /\ subscribed' = FALSE
    /\ UNCHANGED <<graphCopy, contextAuthToken, contextUserName, effectRuns, requests, handled,
                   providerShips, providerFlights, providerStorageData, providerContracts,
                   contractSnapshot, lastSnapshot>>
    /\ UNCHANGED providerOthers

-----------------------------------------------------------------------------
(* The cloud functions: updateContracts (HTTP) and scheduledContractSync run  *)
(* updateContractsSnapshot, which loads the snapshot document, fetches the    *)
(* contracts of the API, merges and persists. The awaits of one run are       *)
(* separate steps; the two triggers run in separate instances.                *)

\* 1500 in functions/index.js, scaled down
MAX_CONTRACT_SNAPSHOT_SIZE == 2

\* a value that is no object
NoContract == [isNull |-> TRUE]

NoDocument == [isNull |-> TRUE]

NoMerge == [isNull |-> TRUE]

\* contract.<name>, undefined (null here) for a field the object lacks
PropertyOf(object, name) == IF name \in DOMAIN object THEN object[name] ELSE Null

IdentifierFields ==
    <<"ContractId", "contractId", "Id", "id", "ContractNumber", "contractNumber",
      "ContractCode", "contractCode", "ContractLocalId", "contractLocalId">>

TimestampFields ==
    <<"Timestamp", "timestamp", "LastUpdated", "lastUpdated", "updatedAt", "UpdatedAt",
      "CreatedAt", "createdAt", "DueDateEpochMs", "dueDateEpochMs">>

\* for (const candidate of candidates): the first that is not null and not
\* blank, trimmed
RECURSIVE FirstIdentifier(_, _)
FirstIdentifier(contract, fields) ==
    IF fields = <<>> THEN Null
    ELSE IF PropertyOf(contract, Head(fields)) # Null /\ trim(PropertyOf(contract, Head(fields))) # <<>>
    THEN trim(PropertyOf(contract, Head(fields)))
    ELSE FirstIdentifier(contract, Tail(fields))

normalizeContractIdentifier(contract) ==
    IF contract = NoContract THEN Null ELSE FirstIdentifier(contract, IdentifierFields)

\* typeof candidate === "number" && Number.isFinite(candidate)
IsFiniteNumber(value) == value # <<>> /\ value[1] = "number"

\* the first candidate that is a finite number; the strings of the model are
\* words, for which Date.parse and Number give NaN
RECURSIVE FirstTimestamp(_, _)
FirstTimestamp(contract, fields) ==
    IF fields = <<>> THEN MinusInfinity
    ELSE IF IsFiniteNumber(PropertyOf(contract, Head(fields)))
    THEN DigitsValue(Tail(PropertyOf(contract, Head(fields))))
    ELSE FirstTimestamp(contract, Tail(fields))

resolveContractTimestampValue(contract) ==
    IF contract = NoContract THEN MinusInfinity ELSE FirstTimestamp(contract, TimestampFields)

\* idToIndex after snapshot.forEach: the first index of each identifier
RECURSIVE IndexExisting(_, _, _)
IndexExisting(map, snapshot, index) ==
    IF index > Len(snapshot) THEN map
    ELSE IndexExisting(
            IF /\ Truthy(normalizeContractIdentifier(snapshot[index]))
               /\ normalizeContractIdentifier(snapshot[index]) \notin DOMAIN map
            THEN map @@ (normalizeContractIdentifier(snapshot[index]) :> index)
            ELSE map,
            snapshot, index + 1)

\* every update is pushed, whether its identifier is known or not
UpsertAppending(acc, contract, id) ==
    [snapshot |-> Append(acc.snapshot, contract),
     idToIndex |-> acc.idToIndex]

\* the body of updates.forEach for an update with an identifier:
\* { ...existing, ...contract } in place, or push
Upsert(acc, contract, id) ==
    IF id \in DOMAIN acc.idToIndex
    THEN [acc EXCEPT !.snapshot[acc.idToIndex[id]] = contract @@ @]
    ELSE [snapshot |-> Append(acc.snapshot, contract),
          idToIndex |-> acc.idToIndex @@ (id :> Len(acc.snapshot) + 1)]

\* updates.forEach
RECURSIVE UpsertAll(_, _)
UpsertAll(acc, updates) ==
    IF updates = <<>> THEN acc
    ELSE CHOOSE result \in
            { UpsertAll(IF Head(updates) = NoContract \/ ~Truthy(id) THEN acc
                        ELSE Upsert(acc, Head(updates), id),
                        Tail(updates)) :
                id \in {normalizeContractIdentifier(Head(updates))} } : TRUE

\* the snapshot before the cap is applied
upserted(existingSnapshot, updates) ==
    UpsertAll([snapshot |-> existingSnapshot,
               idToIndex |-> IndexExisting(EmptyMap, existingSnapshot, 1)], updates).snapshot

\* the comparator of entriesWithTimestamps.sort
Before(a, b) ==
    IF a.timestamp = b.timestamp THEN a.index < b.index ELSE a.timestamp < b.timestamp

RECURSIVE InsertByTimestamp(_, _)
InsertByTimestamp(sorted, entry) ==
    IF sorted = <<>> THEN <<entry>>
    ELSE IF Before(entry, Head(sorted)) THEN <<entry>> \o sorted
    ELSE <<Head(sorted)>> \o InsertByTimestamp(Tail(sorted), entry)

RECURSIVE sortByTimestamp(_)
sortByTimestamp(entries) ==
    IF entries = <<>> THEN <<>>
    ELSE InsertByTimestamp(sortByTimestamp(Tail(entries)), Head(entries))

entriesWithTimestamps(snapshot) ==
    [index \in 1..Len(snapshot) |->
        [index |-> index, timestamp |-> resolveContractTimestampValue(snapshot[index])]]

\* the first positions of the list are dropped, whatever their timestamps
dropFirstPositions(snapshot, excess) == 1..excess

\* indicesToDrop: the first excess entries of the sorted list
indicesToDrop(snapshot, excess) ==
    { sortByTimestamp(entriesWithTimestamps(snapshot))[k].index : k \in 1..excess }

\* snapshot.filter((_, index) => !indicesToDrop.has(index))
RECURSIVE filterOut(_, _, _)
filterOut(snapshot, dropped, index) ==
    IF index > Len(snapshot) THEN <<>>
    ELSE (IF index \in dropped THEN <<>> ELSE <<snapshot[index]>>)
         \o filterOut(snapshot, dropped, index + 1)

\* the cap
capped(snapshot) ==
    IF Len(snapshot) <= MAX_CONTRACT_SNAPSHOT_SIZE THEN snapshot
    ELSE filterOut(snapshot,
                   indicesToDrop(snapshot, Len(snapshot) - MAX_CONTRACT_SNAPSHOT_SIZE), 1)

mergeContractsIntoSnapshot(existingSnapshot, updates) ==
    capped(upserted(existingSnapshot, updates))

\* loadExistingSnapshot: [] for a document that does not exist
loadExistingSnapshot(document) ==
    IF document = NoDocument THEN <<>> ELSE document.contracts

Triggers == {"http", "schedule"}

IdleRun ==
    [pc |-> "idle", loaded |-> FALSE, existingSnapshot |-> <<>>,
     fetched |-> FALSE, remoteContracts |-> <<>>]

MaxSyncs == 3

\* a trigger fires: updateContractsSnapshot starts its two reads
StartSync(trigger) ==
    /\ syncRuns[trigger].pc = "idle"
    /\ syncsStarted < MaxSyncs
    /\ syncsStarted' = syncsStarted + 1
    /\ syncRuns' = [syncRuns EXCEPT ![trigger] = [IdleRun EXCEPT !.pc = "reading"]]
    /\ UNCHANGED <<snapshotDocument, lastMerge>>
    /\ UNCHANGED syncOthers

\* snapshotDocRef().get() resolves
LoadSnapshot(trigger) ==
    /\ syncRuns[trigger].pc = "reading"
    /\ ~syncRuns[trigger].loaded
    /\ syncRuns' = [syncRuns EXCEPT ![trigger].loaded = TRUE,
                                    ![trigger].existingSnapshot =
                                        loadExistingSnapshot(snapshotDocument)]
    /\ UNCHANGED <<snapshotDocument, lastMerge, syncsStarted>>
    /\ UNCHANGED syncOthers

\* fetchContractsFromApi resolves with the contracts of the API
FetchContracts(trigger, contractList) ==
    /\ syncRuns[trigger].pc = "reading"
    /\ ~syncRuns[trigger].fetched
    /\ syncRuns' = [syncRuns EXCEPT ![trigger].fetched = TRUE,
                                    ![trigger].remoteContracts = contractList]
    /\ UNCHANGED <<snapshotDocument, lastMerge, syncsStarted>>
    /\ UNCHANGED syncOthers

\* fetchContractsFromApi throws (no key, or a response that is not ok): the
\* run ends in the catch of the trigger
FetchFails(trigger) ==
    /\ syncRuns[trigger].pc = "reading"
    /\ ~syncRuns[trigger].fetched
    /\ syncRuns' = [syncRuns EXCEPT ![trigger] = IdleRun]
    /\ UNCHANGED <<snapshotDocument, lastMerge, syncsStarted>>
    /\ UNCHANGED syncOthers

\* the record of a call of mergeContractsIntoSnapshot
MergeOf(existingSnapshot, updates) ==
    [isNull |-> FALSE,
     existingSnapshot |-> existingSnapshot,
     updates |-> updates,
     upserted |-> upserted(existingSnapshot, updates),
     merged |-> mergeContractsIntoSnapshot(existingSnapshot, updates)]

\* both reads are back: the run merges and persistSnapshot writes the document
PersistSnapshot(trigger) ==
    /\ syncRuns[trigger].pc = "reading"
    /\ syncRuns[trigger].loaded
    /\ syncRuns[trigger].fetched
    /\ \E merge \in {MergeOf(syncRuns[trigger].existingSnapshot,
                             syncRuns[trigger].remoteContracts)} :
          /\ lastMerge' = merge
          /\ snapshotDocument' = [isNull |-> FALSE, contracts |-> merge.merged]
    /\ syncRuns' = [syncRuns EXCEPT ![trigger] = IdleRun]
    /\ UNCHANGED syncsStarted
    /\ UNCHANGED syncOthers

-----------------------------------------------------------------------------
(* AuthProvider: login, loginWithApiKey and logout. The earlier copy          *)
(* (part_004, lines 1 to 207) has no authStrategy, keeps the login name as it *)
(* is given and names every API key user 'API Key'. LoginForm disables its    *)
(* inputs and its button while authLoading, so an attempt starts only when    *)
(* none is under way. window.localStorage works.                              *)

PASSWORD == "password"
API_KEY == "api-key"

\* the three keys removed
NoStored == [token |-> Null, user |-> Null, strategy |-> Null]

NoLogin == [isNull |-> TRUE]

NoAttempt == [isNull |-> TRUE]

\* the bodies of a response: null, a string, a number, or an object given as
\* the list of its entries in insertion order
NoPayload == [kind |-> "null"]
StringPayload(text) == [kind |-> "string", text |-> text]
NumberPayload == [kind |-> "number"]
ObjectPayload(entries) == [kind |-> "object", entries |-> entries]

TokenFields == <<"Token", "AuthToken", "BearerToken", "token", "authToken", "bearerToken">>

\* data.<field> of an object payload, undefined (null here) when absent
RECURSIVE EntryOf(_, _)
EntryOf(entries, field) ==
    IF entries = <<>> THEN NoPayload
    ELSE IF Head(entries).key = field THEN Head(entries).value
    ELSE EntryOf(Tail(entries), field)

\* the first of Token ... bearerToken that is a string, null payload without
RECURSIVE FirstTokenField(_, _)
FirstTokenField(entries, fields) ==
    IF fields = <<>> THEN NoPayload
    ELSE IF EntryOf(entries, Head(fields)).kind = "string" THEN EntryOf(entries, Head(fields))
    ELSE FirstTokenField(entries, Tail(fields))

\* extractToken: null, or the trimmed string found
RECURSIVE extractToken(_)
RECURSIVE FirstExtracted(_)
extractToken(data) ==
    IF data.kind = "string" THEN trim(data.text)
    ELSE IF data.kind # "object" THEN Null
    ELSE IF FirstTokenField(data.entries, TokenFields) # NoPayload
    THEN trim(FirstTokenField(data.entries, TokenFields).text)
    ELSE FirstExtracted(data.entries)

\* for (const value of Object.values(data)): the first extracted string that
\* is not empty
FirstExtracted(entries) ==
    IF entries = <<>> THEN Null
    ELSE IF Truthy(extractToken(Head(entries).value)) THEN trim(extractToken(Head(entries).value))
    ELSE FirstExtracted(Tail(entries))

\* what a call of login meets: fetch rejects, the response is not ok, or it
\* carries a body
NetworkError == [kind |-> "network-error"]
HttpError == [kind |-> "http-error"]
Responds(payload) == [kind |-> "ok", payload |-> payload]

\* error.message of what login throws for the outcome, null when it returns
ThrownBy(outcome) ==
    IF outcome.kind = "network-error" THEN <<"F","a","i","l","e","d"," ","t","o"," ","f","e","t","c","h">>
    ELSE IF outcome.kind = "http-error" THEN <<"s","t","a","t","u","s">>
    ELSE IF ~Truthy(extractToken(outcome.payload)) THEN <<"n","o"," ","t","o","k","e","n">>
    ELSE Null

\* normalizeString of the current copy; the earlier copy uses the name as given
normalizeString(value) == IF value = Null THEN <<>> ELSE trim(value)

LoginNameOf(copy, loginName) ==
    IF copy = "current" THEN normalizeString(loginName)
    ELSE IF loginName = Null THEN <<>> ELSE loginName

OrNull(value) == IF value = <<>> THEN Null ELSE value

\* the session the provider holds: the three states and the stored keys
Session == [authToken |-> authToken, userName |-> userName, authStrategy |-> authStrategy,
            localStorage |-> localStorage]

NoSession == [authToken |-> Null, userName |-> Null, authStrategy |-> Null,
              localStorage |-> NoStored]

\* a catch block that leaves the session as it is
KeptSession(session) == session

\* the catch block of login: the three states null, the three keys removed
ClearedSession(session) == NoSession

\* the try block of login after a token was extracted
PasswordSession(copy, token, loginName) ==
    [authToken |-> token,
     userName |-> OrNull(LoginNameOf(copy, loginName)),
     authStrategy |-> IF copy = "current" THEN PASSWORD ELSE Null,
     localStorage |-> [token |-> token,
                       user |-> OrNull(LoginNameOf(copy, loginName)),
                       strategy |-> IF copy = "current" THEN PASSWORD ELSE Null]]

\* the name loginWithApiKey stores
ApiKeyName == <<"A","P","I"," ","K","e","y">>

ApiKeySession(copy, key, loginName) ==
    [authToken |-> key,
     userName |-> IF copy = "current" THEN normalizeString(loginName) ELSE ApiKeyName,
     authStrategy |-> IF copy = "current" THEN API_KEY ELSE Null,
     localStorage |-> [token |-> key,
                       user |-> IF copy = "current" THEN normalizeString(loginName) ELSE ApiKeyName,
                       strategy |-> IF copy = "current" THEN API_KEY ELSE Null]]

SetSession(session) ==
    /\ authToken' = session.authToken
    /\ userName' = session.userName
    /\ authStrategy' = session.authStrategy
    /\ localStorage' = session.localStorage

MaxAttempts == 3

\* login is called: setAuthLoading(true), setAuthError(null), then the await
Login(loginName) ==
    /\ ~authLoading
    /\ pendingLogin = NoLogin
    /\ attempts < MaxAttempts
    /\ attempts' = attempts + 1
    /\ authLoading' = TRUE
    /\ authError' = Null
    /\ pendingLogin' = [isNull |-> FALSE, loginName |-> loginName]
    /\ UNCHANGED <<authCopy, authToken, userName, authStrategy, localStorage, lastAttempt>>
    /\ UNCHANGED authOthers

\* the await of login is over: try, catch and finally
LoginSettles(outcome) ==
    /\ pendingLogin # NoLogin
    /\ pendingLogin' = NoLogin
    /\ lastAttempt' = [isNull |-> FALSE, call |-> "login", outcome |-> outcome,
                       before |-> authToken, thrown |-> ThrownBy(outcome)]
    /\ IF ThrownBy(outcome) = Null
       THEN /\ SetSession(PasswordSession(authCopy, extractToken(outcome.payload),
                                          pendingLogin.loginName))
            /\ UNCHANGED authError
       ELSE /\ SetSession(ClearedSession(Session))
            /\ authError' = ThrownBy(outcome)
    /\ authLoading' = FALSE
    /\ UNCHANGED <<authCopy, attempts>>
    /\ UNCHANGED authOthers

\* what loginWithApiKey throws before it sets any state, null when it goes on
RejectedInput(copy, loginName, apiKeyInput) ==
    IF copy = "current" /\ normalizeString(loginName) = <<>>
    THEN <<"U","s","e","r","n","a","m","e">>
    ELSE IF normalizeString(apiKeyInput) = <<>> THEN <<"e","m","p","t","y">>
    ELSE Null

\* loginWithApiKey, which awaits nothing
LoginWithApiKey(loginName, apiKeyInput) ==
    /\ ~authLoading
    /\ pendingLogin = NoLogin
    /\ attempts < MaxAttempts
    /\ attempts' = attempts + 1
    /\ lastAttempt' = [isNull |-> FALSE, call |-> "loginWithApiKey",
                       outcome |-> [kind |-> "none"], before |-> authToken,
                       thrown |-> RejectedInput(authCopy, loginName, apiKeyInput)]
    /\ IF RejectedInput(authCopy, loginName, apiKeyInput) # Null
       THEN UNCHANGED <<authToken, userName, authStrategy, localStorage, authError, authLoading>>
       ELSE /\ SetSession(ApiKeySession(authCopy, normalizeString(apiKeyInput), loginName))
            /\ authError' = Null
            /\ authLoading' = FALSE
    /\ UNCHANGED <<authCopy, pendingLogin>>
    /\ UNCHANGED authOthers

\* logout, at any time
Logout ==
    /\ authToken # Null \/ authError # Null
    /\ SetSession(NoSession)
    /\ authError' = Null
    /\ UNCHANGED <<authCopy, authLoading, pendingLogin, lastAttempt, attempts>>
    /\ UNCHANGED authOthers

-----------------------------------------------------------------------------
(* The components at rest *)

ResolveIdle ==
    /\ systemNames = <<>>
    /\ universeData = <<>>
    /\ graphNodes = {}
    /\ systemLookups = [byName |-> EmptyMap, byNaturalId |-> EmptyMap]
    /\ candidate = Null
    /\ resolved = Null

SelectIdle == candidates = <<>> /\ selected = <<FALSE, [isNull |-> TRUE]>>

StorageIdle ==
    /\ storageData = <<>>
    /\ ships = <<>>
    /\ storageIndex = EmptyMap
    /\ shipLoadInfo = EmptyMap
    /\ storageRecordScoreCache = EmptyMap
    /\ scoreCacheWrites = {}
    /\ refetched = FALSE

ContractIdle ==
    /\ contracts = <<>>
    /\ shipmentContractsByItemId = EmptyMap

InterpIdle ==
    /\ flightShip = NoShip
    /\ segmentPairs = <<>>
    /\ activeFlight = NoFlight
    /\ now = 0
    /\ position = NoPosition

ExtractIdle ==
    /\ planetData = <<>>
    /\ planetLookups = [byId |-> EmptyMap, byNaturalId |-> EmptyMap]
    /\ lines = <<>>
    /\ location = NoDetail

RenderIdle ==
    /\ flights = <<>>
    /\ flightDiagnostics = <<>>
    /\ activeShipIds = {}
    /\ flightPositions = <<>>
    /\ idleShipIds = <<>>
    /\ renderError = "none"
    /\ timedActiveShipIds = {}
    /\ markers = <<>>

\* the provider is not mounted
ProviderIdle ==
    /\ graphCopy = 3
    /\ mounted = FALSE
    /\ contextAuthToken = Null
    /\ contextUserName = Null
    /\ effectRuns = 0
    /\ isMounted = {}
    /\ requests = {}
    /\ handled = NoRequest
    /\ providerShips = <<>>
    /\ providerFlights = <<>>
    /\ providerStorageData = <<>>
    /\ providerContracts = <<>>
    /\ contractSnapshot = <<>>
    /\ subscribed = FALSE
    /\ lastSnapshot = NoSnapshot

\* no snapshot document yet, no run of the cloud function
SyncIdle ==
    /\ snapshotDocument = NoDocument
    /\ syncRuns = [trigger \in Triggers |-> IdleRun]
    /\ lastMerge = NoMerge
    /\ syncsStarted = 0

\* AuthProvider before it mounts
AuthIdle ==
    /\ authCopy = "current"
    /\ authToken = Null
    /\ userName = Null
    /\ authStrategy = Null
    /\ authLoading = FALSE
    /\ authError = Null
    /\ localStorage = NoStored
    /\ pendingLogin = NoLogin
    /\ lastAttempt = NoAttempt
    /\ attempts = 0

ContextIdle == ProviderIdle /\ SyncIdle /\ AuthIdle

\* all of the overlay at rest
OverlayIdle ==
    /\ ResolveIdle /\ SelectIdle /\ StorageIdle /\ ContractIdle
    /\ InterpIdle /\ ExtractIdle /\ RenderIdle

IdleExceptResolve ==
    SelectIdle /\ StorageIdle /\ ContractIdle /\ InterpIdle /\ ExtractIdle /\ RenderIdle /\ ContextIdle

IdleExceptSelect ==
    ResolveIdle /\ StorageIdle /\ ContractIdle /\ InterpIdle /\ ExtractIdle /\ RenderIdle /\ ContextIdle

IdleExceptStorage == ResolveIdle /\ SelectIdle /\ InterpIdle /\ ExtractIdle /\ RenderIdle /\ ContextIdle

IdleExceptInterp ==
    ResolveIdle /\ SelectIdle /\ StorageIdle /\ ContractIdle /\ ExtractIdle /\ RenderIdle /\ ContextIdle

IdleExceptExtract == SelectIdle /\ StorageIdle /\ ContractIdle /\ InterpIdle /\ RenderIdle /\ ContextIdle

IdleExceptRender == SelectIdle /\ StorageIdle /\ ContractIdle /\ InterpIdle /\ RenderIdle /\ ContextIdle


-----------------------------------------------------------------------------
(* Specifications, one per component *)

InitResolve ==
    /\ IdleExceptResolve
    /\ systemNames \in SystemNamesChoices
    /\ universeData \in UniverseChoices
    /\ graphNodes \in GraphChoices
    /\ systemLookups = BuildSystemLookups(systemNames, universeData)
    /\ candidate = Null
    /\ resolved = Null

NextResolve ==
    \/ \E names \in SystemNamesRefresh : SetSystemNames(names)
    \/ \E universe \in UniverseRefresh : SetUniverseData(universe)
    \/ \E nodes \in GraphChoices : SetGraph(nodes)
    \/ \E cand \in CandidatePool : ResolveSystemId(cand)

SpecResolve == InitResolve /\ [][NextResolve]_vars

\* ---- the lookup steps of resolveSystemId, one by one
LookupCandidates ==
    CandidatePool \cup
    { NumberValue(<<"7">>), NumberValue(<<"0">>), ObjectValue,
      <<"(","x","-","1",")","z">>,
      <<"(","z",")","(","x","-","1",")">>,
      <<"(","m","o",")">> }

InitLookup ==
    /\ IdleExceptResolve
    /\ systemNames \in SystemNamesRefresh
    /\ universeData \in UniverseRefresh
    /\ graphNodes \in GraphChoices
    /\ systemLookups = BuildSystemLookups(systemNames, universeData)
    /\ candidate = Null
    /\ resolved = Null

NextLookup ==
    \/ \E names \in SystemNamesRefresh : SetSystemNames(names)
    \/ \E universe \in UniverseRefresh : SetUniverseData(universe)
    \/ \E nodes \in GraphChoices : SetGraph(nodes)
    \/ \E cand \in LookupCandidates : ResolveSystemId(cand)

SpecLookup == InitLookup /\ [][NextLookup]_vars

InitSelect ==
    /\ IdleExceptSelect
    /\ candidates \in SeqsUpTo(DetailPool, MaxCandidates)
    /\ selected = <<FALSE, NoDetail>>

NextSelect == SelectDisplayLocation

SpecSelect == InitSelect /\ [][NextSelect]_vars

\* ---- the storage records competing for one ship
InitStorage ==
    /\ StorageIdle
    /\ ContractIdle
    /\ IdleExceptStorage

NextStorage ==
    \/ \E record \in RecordPool : AppendStorageRecord(record)
    \/ \E i \in 1..MaxRecords : SwapStorageRecords(i)
    \/ \E ship \in ShipPool : SetShip(ship)

SpecStorage == InitStorage /\ [][NextStorage]_vars

\* ---- ship holds against plain stores
TypeShipStoreLower == <<"s","h","i","p","s","t","o","r","e">>
TypeShip == <<"S","H","I","P">>

HoldPool ==
    { [BareRecord(IdS1, Null, TypeShipStore) EXCEPT !.VolumeCapacity = 500],
      [BareRecord(Null, IdX, TypeShipStoreLower) EXCEPT !.WeightCapacity = 0, !.Timestamp = Year2024],
      [BareRecord(IdS1, IdX, TypeStore) EXCEPT
          !.FixedStore = "false", !.WeightLoad = 250, !.VolumeLoad = 100, !.PercentFull = 50,
          !.Timestamp = Year2025, !.StorageItems = <<ShipmentItem>>],
      BareRecord(IdS1, Null, TypeStore),
      [BareRecord(Null, IdX, TypeStore) EXCEPT !.Timestamp = Year2025],
      [BareRecord(IdS1, IdX, TypeShip) EXCEPT
          !.FixedStore = "false", !.WeightCapacity = 1000, !.VolumeCapacity = 500,
          !.WeightLoad = 250, !.VolumeLoad = 100, !.Timestamp = Year2025] }

HoldShips ==
    { BareShip(IdA, IdX, IdS1), BareShip(IdA, Null, IdS1), BareShip(IdA, IdX, Null) }

InitHold == InitStorage

NextHold ==
    \/ \E record \in HoldPool : AppendStorageRecord(record)
    \/ \E i \in 1..MaxRecords : SwapStorageRecords(i)
    \/ \E ship \in HoldShips : SetShip(ship)

SpecHold == InitHold /\ [][NextHold]_vars

\* ---- the load of one ship, from its own fields, its embedded Storage and
\* the storage records
LoadRecords ==
    { HoldRecord(IdS1, Null, 500, Year2024),
      [BareRecord(IdS1, Null, TypeShipStore) EXCEPT
          !.VolumeCapacity = 500, !.VolumeLoad = 750, !.PercentFull = 50],
      [BareRecord(IdS1, Null, TypeStore) EXCEPT !.PercentFull = 1],
      BareRecord(IdS1, Null, TypeStore) }

LoadShips ==
    { BareShip(IdA, Null, IdS1),
      [BareShip(IdA, Null, Null) EXCEPT
          !.WeightCapacity = 500, !.WeightLoad = 750, !.CargoPercentFull = 50],
      [BareShip(IdA, Null, IdS1) EXCEPT
          !.VolumeCapacity = 0, !.VolumeLoad = 100, !.PercentFull = 1],
      [BareShip(IdA, Null, Null) EXCEPT !.CargoPercentFull = 2],
      [BareShip(IdA, Null, Null) EXCEPT !.CargoPercentFull = 150],
      [BareShip(IdA, Null, Null) EXCEPT !.WeightCapacity = 500, !.WeightLoad = -50],
      [BareShip(IdA, Null, Null) EXCEPT !.PercentFull = -5],
      BareShip(IdB, Null, Null),
      [BareShip(IdB, Null, Null) EXCEPT
          !.Storage = [BareRecord(Null, Null, Null) EXCEPT
                          !.VolumeCapacity = 500, !.VolumeLoad = 250]],
      [BareShip(IdB, Null, Null) EXCEPT !.WeightCapacity = 500],
      [BareShip(IdB, Null, Null) EXCEPT
          !.Storage = [BareRecord(Null, Null, Null) EXCEPT !.StorageItems = <<LooseItem>>]],
      [BareShip(IdB, Null, IdS1) EXCEPT !.Storage = BareRecord(Null, Null, Null)],
      [BareShip(IdB, Null, Null) EXCEPT !.Storage = BareRecord(Null, Null, Null)] }

InitLoad == InitStorage

NextLoad ==
    \/ \E record \in LoadRecords : AppendStorageRecord(record)
    \/ \E i \in 1..MaxRecords : SwapStorageRecords(i)
    \/ \E ship \in LoadShips : SetShip(ship)

SpecLoad == InitLoad /\ [][NextLoad]_vars

\* the contract lists a refresh may deliver
ContractSnapshots ==
    { <<>>,
      <<[Type |-> DELIVERY_SHIPMENT,
         Conditions |-> <<Condition(DELIVERY_SHIPMENT, IdI1, 2), Condition(DELIVERY_SHIPMENT, IdI1, 0)>>]>> }

\* ---- the shipments of one ship, from its storage record and its embedded Storage
CargoRecords ==
    { [BareRecord(IdS1, Null, TypeShipStore) EXCEPT !.StorageItems = <<ShipmentItem, LooseItem>>],
      [BareRecord(IdS1, IdX, TypeStore) EXCEPT !.StorageItems = <<MaterialItem, TaggedItem>>],
      [BareRecord(IdS1, Null, TypeShipStore) EXCEPT
          !.WeightCapacity = 500, !.StorageItems = <<ShipmentItem, ShipmentItem>>] }

\* a ship of the storage "s1" with an embedded Storage of the items given
CargoShip(storageId, items) ==
    [BareShip(IdA, Null, IdS1) EXCEPT
        !.Storage = [BareRecord(storageId, Null, Null) EXCEPT !.StorageItems = items]]

CargoShips ==
    { BareShip(IdA, Null, IdS1),
      CargoShip(Null, <<ShipmentItem>>),
      CargoShip(Null, <<TaggedItem>>),
      CargoShip(Null, <<MaterialItem, ShipmentItem>>),
      CargoShip(Null, <<LooseItem, MaterialItem>>),
      CargoShip(IdS1, <<ShipmentItem, LooseItem>>) }

InitCargo == InitStorage

NextCargo ==
    \/ \E record \in CargoRecords : AppendStorageRecord(record)
    \/ \E i \in 1..MaxRecords : SwapStorageRecords(i)
    \/ \E ship \in CargoShips : SetShip(ship)
    \/ \E contractList \in ContractSnapshots : SetContracts(contractList)

SpecCargo == InitCargo /\ [][NextCargo]_vars

\* ---- the ships of one pass over given storage and contract snapshots
StorageSnapshots ==
    { <<>>,
      <<HoldRecord(IdS1, Null, 500, Year2024),
        [BareRecord(IdS1, IdX, TypeStore) EXCEPT !.StorageItems = <<ShipmentItem, LooseItem>>]>> }

InitShips ==
    /\ StorageIdle
    /\ ContractIdle
    /\ IdleExceptStorage

NextShips ==
    \/ \E ship \in ShipPool : AppendShip(ship)
    \/ \E i \in 1..MaxShips : SwapShips(i)
    \/ \E data \in StorageSnapshots : SetStorageData(data)
    \/ \E contractList \in ContractSnapshots : SetContracts(contractList)

SpecShips == InitShips /\ [][NextShips]_vars

\* ---- the contracts behind the shipment-contract index
InitContracts ==
    /\ StorageIdle
    /\ ContractIdle
    /\ IdleExceptStorage

NextContracts ==
    \/ \E contract \in ContractPool : AppendContract(contract)
    \/ \E i \in 1..MaxContracts : SwapContracts(i)

SpecContracts == InitContracts /\ [][NextContracts]_vars

\* ---- the positions of one ship in flight
InitInterp ==
    /\ InterpIdle
    /\ IdleExceptInterp

NextInterp ==
    \/ \E segment \in SegmentPool : AppendSegmentPair(segment)
    \/ \E flight \in FlightContextPool : SetActiveFlight(flight)
    \/ \E ship \in FlightShipPool : SetFlightShip(ship)
    \/ \E time \in 0..MaxNow : Interpolate(time)

SpecInterp == InitInterp /\ [][NextInterp]_vars

\* ---- segments whose sources of progress disagree
TimedSegment(departure, arrival, duration) ==
    [DepartureEpochMs |-> departure, ArrivalEpochMs |-> arrival, DurationMs |-> duration,
     DepartureTimeEpochMs |-> NoNumber, ArrivalTimeEpochMs |-> NoNumber]

ProgressSegments ==
    { TimedSegment(2, 4, 8),
      TimedSegment(2, NoNumber, 4),
      TimedSegment(4, 2, NoNumber),
      TimedSegment(NoNumber, 4, 4),
      TimedSegment(NoNumber, NoNumber, NoNumber),
      [TimedSegment(NoNumber, NoNumber, 0) EXCEPT
          !.DepartureTimeEpochMs = 1, !.ArrivalTimeEpochMs = 5] }

ProgressFlights ==
    { NoFlight,
      [CurrentSegmentIndex |-> 0, Progress |-> [n |-> 3, d |-> 2]],
      [CurrentSegmentIndex |-> NoNumber, Progress |-> NaNProgress],
      [CurrentSegmentIndex |-> NoNumber, Progress |-> [n |-> 1, d |-> 4]] }

ProgressShips ==
    { NoShip,
      [CurrentSegmentIndex |-> NoNumber, Progress |-> NoRatio],
      [CurrentSegmentIndex |-> 1, Progress |-> [n |-> 0 - 1, d |-> 2]],
      [CurrentSegmentIndex |-> 0, Progress |-> [n |-> 3, d |-> 4]] }

InitProgress == InitInterp

NextProgress ==
    \/ \E segment \in ProgressSegments : AppendSegmentPair(segment)
    \/ \E flight \in ProgressFlights : SetActiveFlight(flight)
    \/ \E ship \in ProgressShips : SetFlightShip(ship)
    \/ \E time \in 0..MaxNow : Interpolate(time)

SpecProgress == InitProgress /\ [][NextProgress]_vars

\* ---- segment infos with and without resolved endpoints
CenterA == [x |-> 0, y |-> 0]
CenterB == [x |-> 4, y |-> 3]

\* <<segment, fromCenter, toCenter>>
EndpointInfos ==
    { <<TimedSegment(2, 4, NoNumber), CenterA, CenterB>>,
      <<TimedSegment(2, 4, NoNumber), NoPoint, CenterB>>,
      <<TimedSegment(NoNumber, NoNumber, NoNumber), CenterB, NoPoint>>,
      <<TimedSegment(NoNumber, NoNumber, NoNumber), NoPoint, NoPoint>>,
      <<TimedSegment(NoNumber, NoNumber, NoNumber), CenterA, CenterA>> }

EndpointFlights ==
    { NoFlight, [CurrentSegmentIndex |-> 0, Progress |-> [n |-> 1, d |-> 4]] }

EndpointShips ==
    { NoShip,
      [CurrentSegmentIndex |-> NoNumber, Progress |-> NoRatio],
      [CurrentSegmentIndex |-> 1, Progress |-> [n |-> 3, d |-> 4]] }

InitEndpoints == InitInterp

NextEndpoints ==
    \/ \E info \in EndpointInfos : AppendSegmentInfo(info[1], info[2], info[3])
    \/ \E flight \in EndpointFlights : SetActiveFlight(flight)
    \/ \E ship \in EndpointShips : SetFlightShip(ship)
    \/ \E time \in 0..MaxNow : Interpolate(time)

SpecEndpoints == InitEndpoints /\ [][NextEndpoints]_vars

\* ---- the location details of line lists, with and without loaded data
InitExtract ==
    /\ IdleExceptExtract
    /\ systemNames \in {<<>>, <<<<SysId1, <<"M","o">>>>>>}
    /\ universeData = <<>>
    /\ graphNodes = {}
    /\ systemLookups = BuildSystemLookups(systemNames, universeData)
    /\ candidate = Null
    /\ resolved = Null
    /\ planetData \in SeqsUpTo(PlanetPool, 1)
    /\ planetLookups = BuildPlanetLookups(planetData)
    /\ lines = <<>>
    /\ location = NoDetail

NextExtract == \E entry \in EntryPool : AppendLine(entry)

SpecExtract == InitExtract /\ [][NextExtract]_vars

\* ---- the attributes filled entry by entry, empty strings among the entries
FillPool ==
    { StringEntry(<<>>),
      StringEntry(<<"M","o">>),
      StringEntry(IdP1),
      [ObjectEntry EXCEPT !.Type = <<"S","T","A","T","I","O","N">>, !.NaturalId = <<"a","n","t">>,
                          !.Name = <<"S","t">>, !.SystemId = SysId1],
      [ObjectEntry EXCEPT !.Type = <<"P","l","a","n","e","t">>, !.Name = <<"P","l">>],
      [ObjectEntry EXCEPT !.Type = station, !.Id = IdP1, !.SystemId = SysId1] }

InitFill == InitExtract

NextFill == \E entry \in FillPool : AppendLine(entry)

SpecFill == InitFill /\ [][NextFill]_vars

\* ---- the lookup tables built, and built again from equal snapshots
InitRebuild ==
    /\ StorageIdle
    /\ ContractIdle
    /\ SelectIdle
    /\ InterpIdle
    /\ RenderIdle
    /\ ContextIdle
    /\ systemNames = <<<<SysId1, <<"M","o">>>>>>
    /\ universeData \in {<<>>} \cup {<<<<SysId1, <<e>>>>>> : e \in UniverseEntries}
    /\ graphNodes = {}
    /\ systemLookups = BuildSystemLookups(systemNames, universeData)
    /\ candidate = Null
    /\ resolved = Null
    /\ planetData \in SeqsUpTo(PlanetPool, 1)
    /\ planetLookups = BuildPlanetLookups(planetData)
    /\ lines = <<>>
    /\ location = NoDetail

NextRebuild ==
    \/ \E ship \in ShipPool : SetShip(ship)
    \/ \E data \in StorageSnapshots : SetStorageData(data)
    \/ \E contractList \in ContractSnapshots : SetContracts(contractList)
    \/ RefetchStorageData
    \/ RefetchContracts
    \/ RefetchUniverse

SpecRebuild == InitRebuild /\ [][NextRebuild]_vars

\* ---- the passes of renderOverlay over flights and ships, the map loaded
InitRender ==
    /\ IdleExceptRender
    /\ systemNames = <<<<SysId1, <<"M","o">>>>, <<SysId2, <<"B","2">>>>>>
    /\ universeData = <<>>
    /\ graphNodes \in {SystemIds, {SysId1}}
    /\ systemLookups = BuildSystemLookups(systemNames, universeData)
    /\ candidate = Null
    /\ resolved = Null
    /\ planetData = <<>>
    /\ planetLookups = BuildPlanetLookups(planetData)
    /\ lines = <<>>
    /\ location = NoDetail

NextRender ==
    \/ \E flight \in FlightPool : AppendFlight(flight)
    \/ \E list \in FleetSnapshots : SetFleet(list)
    \/ \E time \in RefreshTimes : Refresh(time)

SpecRender == InitRender /\ [][NextRender]_vars

\* passes over ships with a location and flights that name their ship by its
\* ShipId or by its Name
ShipAX == [CurrentSystemId |-> SysId1] @@ BareShip(IdA, IdX, Null)
ShipBHere == [CurrentSystemId |-> SysId2] @@ BareShip(IdB, Null, Null)

MarkerFlights ==
    { Flight(IdA, <<LegOut>>),
      Flight(IdX, <<LegOut>>),
      Flight(IdA, <<LegBack, LegOut>>),
      Flight(IdB, <<LegWithin>>),
      Flight(IdB, <<LegBack, LegOut>>) }

MarkerFleets ==
    { <<>>,
      <<ShipAX, BareShip(IdB, Null, Null)>>,
      <<ShipBHere, ShipAX>>,
      <<BareShip(IdB, Null, Null)>> }

InitMarkers == InitRender

NextMarkers ==
    \/ \E flight \in MarkerFlights : AppendFlight(flight)
    \/ \E list \in MarkerFleets : SetFleet(list)
    \/ \E time \in RefreshTimes : Refresh(time)

SpecMarkers == InitMarkers /\ [][NextMarkers]_vars

\* ---- the provider under changing credentials
TokenT1 == <<"t","1">>
UserU1 == <<"u","1">>
UserU2 == <<"u","2">>
Blank == <<" "," ">>

\* the provider has mounted and its data-fetch effect has run once, without a
\* token
ProviderMounted ==
    /\ mounted = TRUE
    /\ contextAuthToken = Null
    /\ contextUserName = Null
    /\ effectRuns = 1
    /\ isMounted = {1}
    /\ requests = {}
    /\ handled = NoRequest
    /\ providerShips = <<>>
    /\ providerFlights = <<>>
    /\ providerStorageData = <<>>
    /\ providerContracts = <<>>
    /\ contractSnapshot = <<>>
    /\ subscribed = FALSE
    /\ lastSnapshot = NoSnapshot

InitFetch ==
    /\ OverlayIdle
    /\ SyncIdle
    /\ AuthIdle
    /\ graphCopy \in {1, 2, 3}
    /\ ProviderMounted

\* the credentials found stored: a token as it was written, blank at worst
StoredCredentials == {<<TokenT1, UserU1>>, <<Blank, UserU1>>, <<TokenT1, Null>>}

\* the context values login, loginWithApiKey and logout lead to
Credentials == {<<Null, Null>>, <<TokenT1, UserU1>>, <<TokenT1, UserU2>>}

NextFetch ==
    \/ \E pair \in StoredCredentials : RestoreSession(pair[1], pair[2])
    \/ \E pair \in Credentials : AuthChange(pair[1], pair[2])
    \/ \E request \in requests, outcome \in Outcomes : Respond(request, outcome)
    \/ Unmount

SpecFetch == InitFetch /\ [][NextFetch]_vars

\* the third copy under the SIL tracker key: the snapshots/contracts document
\* does not exist, holds no contracts array, or holds a list of contracts
ContractC1 == [ContractId |-> <<"c","1">>]
ContractC2 == [ContractId |-> <<"c","2">>]

SnapshotDocuments ==
    { NoSnapshot,
      [isNull |-> FALSE, isArray |-> FALSE, contracts |-> <<>>],
      [isNull |-> FALSE, isArray |-> TRUE, contracts |-> <<ContractC1>>],
      [isNull |-> FALSE, isArray |-> TRUE, contracts |-> <<ContractC1, ContractC2>>] }

InitSnapshot ==
    /\ OverlayIdle
    /\ SyncIdle
    /\ AuthIdle
    /\ graphCopy = 3
    /\ ProviderMounted

SnapshotCredentials ==
    { <<Null, Null>>, <<SIL_TRACKER_API_KEY, UserU1>>, <<SIL_TRACKER_API_KEY, UserU2>>,
      <<TokenT1, UserU1>> }

NextSnapshot ==
    \/ \E pair \in SnapshotCredentials : AuthChange(pair[1], pair[2])
    \/ \E request \in requests, outcome \in Outcomes : Respond(request, outcome)
    \/ \E document \in SnapshotDocuments : DeliverSnapshot(document)
    \/ Unmount

SpecSnapshot == InitSnapshot /\ [][NextSnapshot]_vars

\* the contracts the API returns: with the identifier under ContractId or Id,
\* padded, with and without a timestamp, a newer state of a known contract,
\* an entry without identifier and a value that is no object
ContractK1 == [ContractId |-> <<"c","1">>, Timestamp |-> NumberValue(<<"2">>), Status |-> <<"o","p","e","n">>]
ContractK1Closed == [ContractId |-> <<" ","c","1">>, Status |-> <<"d","o","n","e">>]
ContractK2 == [ContractId |-> <<"c","2">>, DueDateEpochMs |-> NumberValue(<<"1">>)]
ContractK3 == [Id |-> <<"c","3">>, Timestamp |-> <<"s","o","o","n">>]
ContractK4 == [ContractId |-> <<"c","4">>, Timestamp |-> NumberValue(<<"1">>)]
ContractAnonymous == [Timestamp |-> NumberValue(<<"9">>)]

RemoteLists ==
    { <<>>,
      <<ContractK1, ContractK2>>,
      <<ContractK3, ContractK4>>,
      <<ContractK2, ContractK1Closed, ContractAnonymous, NoContract>>,
      <<ContractK4, ContractK3, ContractK2>> }

InitSync ==
    /\ OverlayIdle
    /\ ProviderIdle
    /\ SyncIdle
    /\ AuthIdle

NextSync ==
    \/ \E trigger \in Triggers : StartSync(trigger)
    \/ \E trigger \in Triggers : LoadSnapshot(trigger)
    \/ \E trigger \in Triggers, contractList \in RemoteLists : FetchContracts(trigger, contractList)
    \/ \E trigger \in Triggers : FetchFails(trigger)
    \/ \E trigger \in Triggers : PersistSnapshot(trigger)

SpecSync == InitSync /\ [][NextSync]_vars

\* the provider after its mount effect: nothing stored, or the session of an
\* earlier visit
InitAuth ==
    /\ OverlayIdle
    /\ ProviderIdle
    /\ SyncIdle
    /\ authCopy \in {"current", "earlier"}
    /\ \E session \in {NoSession, PasswordSession(authCopy, TokenT1, UserU1)} :
          /\ authToken = session.authToken
          /\ userName = session.userName
          /\ authStrategy = session.authStrategy
          /\ localStorage = session.localStorage
    /\ authLoading = FALSE
    /\ authError = Null
    /\ pendingLogin = NoLogin
    /\ lastAttempt = NoAttempt
    /\ attempts = 0

\* what the login request meets
LoginOutcomes ==
    { NetworkError,
      HttpError,
      Responds(NoPayload),
      Responds(StringPayload(<<" ","t","2"," ">>)),
      Responds(ObjectPayload(<<[key |-> "AuthToken", value |-> StringPayload(<<"t","2">>)]>>)),
      Responds(ObjectPayload(<<[key |-> "Token", value |-> StringPayload(Blank)],
                               [key |-> "note", value |-> StringPayload(<<"t","3">>)]>>)),
      Responds(ObjectPayload(<<[key |-> "ok", value |-> NumberPayload],
                               [key |-> "data", value |->
                                   ObjectPayload(<<[key |-> "token",
                                                    value |-> StringPayload(<<"t","3">>)]>>)]>>)),
      Responds(ObjectPayload(<<[key |-> "ok", value |-> NumberPayload]>>)) }

LoginNames == {UserU1, <<" ","u","2">>, Null}

ApiKeyInputs == {<<"k","1"," ">>, Blank}

NextAuth ==
    \/ \E loginName \in LoginNames : Login(loginName)
    \/ \E outcome \in LoginOutcomes : LoginSettles(outcome)
    \/ \E loginName \in LoginNames, apiKeyInput \in ApiKeyInputs :
          LoginWithApiKey(loginName, apiKeyInput)
    \/ Logout

SpecAuth == InitAuth /\ [][NextAuth]_vars

\* ---- passes before, at and after the arrival of a flight
LegLate == Leg(LineOfSystem(SysId1), LineOfSystem(SysId2), 5, 7)

Docked == <<"D","o","c","k","e","d">>

ArrivalFlights ==
    { Flight(IdA, <<LegLate>>),
      [Flight(IdA, <<LegLate>>) EXCEPT
          !.CurrentSegmentIndex = 0, !.Progress = [n |-> 1, d |-> 1]],
      [Flight(IdB, <<LegOut, LegBack>>) EXCEPT
          !.CurrentSegmentIndex = 0, !.Progress = [n |-> 1, d |-> 1]],
      [Status |-> Docked] @@ Flight(IdB, <<LegOut>>),
      Flight(IdB, <<LegWithin>>) }

ArrivalFleets ==
    { <<>>,
      <<BareShip(IdA, IdX, Null), BareShip(IdB, Null, Null)>>,
      <<[BareShip(IdA, Null, Null) EXCEPT !.Progress = [n |-> 1, d |-> 2]]>> }

\* minutes: before the departure of LegLate, on the way, at arrival, long after
ArrivalTimes == {2, 6, 7, 10}

InitArrival == InitRender

NextArrival ==
    \/ \E flight \in ArrivalFlights : AppendFlight(flight)
    \/ \E list \in ArrivalFleets : SetFleet(list)
    \/ \E time \in ArrivalTimes : Refresh(time)

SpecArrival == InitArrival /\ [][NextArrival]_vars


-----------------------------------------------------------------------------
(* SystemResolver: claims *)

\* ---- what the loaded data says about a system

\* the universe entries stored for a system id
EntriesOf(universe, id) ==
    IF \E i \in 1..Len(universe) : universe[i][1] = id
    THEN universe[CHOOSE i \in 1..Len(universe) : universe[i][1] = id][2]
    ELSE <<>>

\* the display names of system id: its systemNames value and its entries' names
DisplayNamesOf(id) ==
    ({SystemNameOf(systemNames, id)}
     \cup {EntriesOf(universeData, id)[i].Name : i \in 1..Len(EntriesOf(universeData, id))})
    \ {Null}

NaturalIdsOf(id) ==
    {EntriesOf(universeData, id)[i].NaturalId : i \in 1..Len(EntriesOf(universeData, id))} \ {Null}

\* the systems of the loaded data
LoadedSystems ==
    {systemNames[i][1] : i \in 1..Len(systemNames)}
    \cup {universeData[i][1] : i \in 1..Len(universeData)}
    \cup graphNodes

\* equality ignoring letter case and surrounding whitespace
SameIgnoringCase(a, b) == toLowerCase(trim(a)) = toLowerCase(trim(b))

\* cand names system id by its id, a display name or a natural id, ignoring case
NamesSystem(cand, id) ==
    /\ cand # Null
    /\ trim(cand) # <<>>
    /\ \/ SameIgnoringCase(cand, id)
       \/ \E n \in DisplayNamesOf(id) : SameIgnoringCase(cand, n)
       \/ \E n \in NaturalIdsOf(id) : SameIgnoringCase(cand, n)

\* cand names system id by the exact id (known to systemNames or the graph),
\* or by a display name or natural id ignoring case
NamesSystemExactId(cand, id) ==
    /\ cand # Null
    /\ trim(cand) # <<>>
    /\ \/ trim(cand) = id /\ IsKnownSystemId(systemNames, graphNodes, id)
       \/ \E n \in DisplayNamesOf(id) : SameIgnoringCase(cand, n)
       \/ \E n \in NaturalIdsOf(id) : SameIgnoringCase(cand, n)

\* some lookup step of resolveSystemId can hit system id for cand
StepMatches(cand, id) ==
    LET c == trim(cand)
        lower == toLowerCase(c)
        NameKeys == {toLowerCase(trim(n)) : n \in DisplayNamesOf(id)}
        NatKeys == {toUpperCase(trim(n)) : n \in NaturalIdsOf(id)}
    IN  \/ c = id /\ IsKnownSystemId(systemNames, graphNodes, id)
        \/ lower \in NameKeys
        \/ cleanName(lower) \in NameKeys
        \/ HasParenMatch(c) /\ toUpperCase(parenMatch(c)) \in NatKeys
        \/ toUpperCase(c) \in NatKeys

\* C1 (as stated): every candidate that equals a system's id, display name or
\* natural id, ignoring letter case and surrounding whitespace, resolves to that
\* system's canonical id.
C1_ResolvesIgnoringCase ==
    \A id \in LoadedSystems : NamesSystem(candidate, id) => resolved = id

\* C1 (amended): a candidate that after trimming equals a known system id
\* exactly, or that ignoring case and surrounding whitespace equals a system's
\* non-empty display name or natural id, resolves to that system's canonical id
\* whenever no lookup step matches a different system.
C1_ResolvesUnambiguous ==
    \A id \in LoadedSystems :
        (/\ NamesSystemExactId(candidate, id)
         /\ \A other \in LoadedSystems \ {id} : ~StepMatches(candidate, other))
        => resolved = id

\* a natural id given in another case and padded with blanks resolved to its system
C1_Witness ==
    /\ candidate = <<"X","-","1"," ">>
    /\ resolved = SysId2
    /\ NaturalIdsOf(SysId2) = {<<"x","-","1">>}
    /\ ~IsKnownSystemId(systemNames, graphNodes, SysId2)

-----------------------------------------------------------------------------
(* LocationSelector: claims *)

NonNullCandidates == {candidates[i] : i \in 1..Len(candidates)} \ {NoDetail}

\* C2: when the argument list holds a non-null LocationDetail, the returned
\* candidate is one of them and its displayPriority (the rank derived from its
\* identifiers when it carries none) is <= that of every non-null candidate; a
\* candidate that carries a displayPriority is never passed over for one with a
\* greater displayPriority or with none.
C2_MostSpecificSelected ==
    (selected[1] /\ NonNullCandidates # {}) =>
        /\ selected[2] \in NonNullCandidates
        /\ \A c \in NonNullCandidates :
              /\ derivedPriority(selected[2]) <= derivedPriority(c)
              /\ c.displayPriority # NoPriority =>
                    /\ selected[2].displayPriority # NoPriority
                    /\ selected[2].displayPriority <= c.displayPriority

\* a planet-level detail given last, after a system-level one and a null, was returned
C2_Witness ==
    /\ selected[1]
    /\ Len(candidates) = 3
    /\ candidates[1] # NoDetail /\ candidates[1].displayPriority = 2
    /\ candidates[2] = NoDetail
    /\ candidates[3] # NoDetail /\ candidates[3].displayPriority = 0
    /\ selected[2] = candidates[3]

-----------------------------------------------------------------------------
(* StorageRecordSelector: claims *)

Range(list) == {list[i] : i \in 1..Len(list)}

\* the normalized keys under which the index files a record
RecordKeySet(record) == {normalizeLookupKey(k) : k \in Range(RecordKeys(record))} \ {Null}

\* the normalized keys considerShip looks a ship up by
ShipKeySet(ship) == {normalizeLookupKey(k) : k \in Range(ShipLookupCandidates(ship))} \ {Null}

\* the positions of the records of data that compete for ship
Competing(data, ship) ==
    {i \in 1..Len(data) : RecordKeySet(data[i]) \cap ShipKeySet(ship) # {}}

\* record a ranks strictly below record b: lower score, or equal score and an
\* earlier timestamp
RanksBelow(a, b) ==
    \/ evaluateStorageRecord(a).score < evaluateStorageRecord(b).score
    \/ /\ evaluateStorageRecord(a).score = evaluateStorageRecord(b).score
       /\ evaluateStorageRecord(a).timestamp < evaluateStorageRecord(b).timestamp

\* the positions of the competing records that no competing record outranks
BestCompeting(data, ship) ==
    {i \in Competing(data, ship) : \A j \in Competing(data, ship) : ~RanksBelow(data[i], data[j])}

\* the storage record of the ShipLoadInfo of the one ship of the list; a ship
\* without ShipLoadInfo has no storage record
StorageRecordOf(info) == IF info = NoInfo THEN NoRecord ELSE info.storageRecord

Selected ==
    IF ships = <<>> THEN NoRecord
    ELSE StorageRecordOf(getShipLoadInfoById(shipLoadInfo, getPrimaryShipId(ships[1])))

\* b lists the records of a in some order
IsReordering(a, b) ==
    /\ Len(a) = Len(b)
    /\ \A r \in Range(a) \cup Range(b) :
          Cardinality({i \in 1..Len(a) : a[i] = r}) = Cardinality({i \in 1..Len(b) : b[i] = r})

\* C3 as stated: for a fixed set of storage records and a fixed ship, the
\* record selected for the ship is the same for every ordering of the storage
\* record list.
C3_StableUnderReordering ==
    [][(ships # <<>> /\ ships' = ships /\ IsReordering(storageData, storageData'))
         => Selected' = Selected]_vars

\* C3 amended: the record selected for the ship is the same for every ordering
\* of the storage record list, provided the competing records of highest score
\* and, among these, of latest timestamp are all equal; records that tie on both
\* are picked by their position.
C3_StableWithoutFullTies ==
    [][(/\ ships # <<>>
        /\ ships' = ships
        /\ IsReordering(storageData, storageData')
        /\ Cardinality({storageData[i] : i \in BestCompeting(storageData, ships[1])}) <= 1)
         => Selected' = Selected]_vars

\* two different records compete for the ship, one outranks the other, and the
\* one selected is the second of the list
C3_Witness ==
    /\ Len(ships) = 1
    /\ Len(storageData) = 2
    /\ Competing(storageData, ships[1]) = {1, 2}
    /\ RanksBelow(storageData[1], storageData[2])
    /\ Selected = storageData[2]

\* the first position, in the order of the scan, of a lookup candidate of ship
\* under which record is filed
KeyPosition(record, ship) ==
    CHOOSE j \in 1..Len(ShipLookupCandidates(ship)) :
        /\ normalizeLookupKey(ShipLookupCandidates(ship)[j]) \in RecordKeySet(record)
        /\ \A k \in 1..(j - 1) :
              normalizeLookupKey(ShipLookupCandidates(ship)[k]) \notin RecordKeySet(record)

\* of the best competing records the one the scan reaches first: earliest
\* lookup candidate, then earliest position in the storage list
FirstReached(data, ship) ==
    CHOOSE i \in BestCompeting(data, ship) :
        \A j \in BestCompeting(data, ship) :
            \/ KeyPosition(data[i], ship) < KeyPosition(data[j], ship)
            \/ KeyPosition(data[i], ship) = KeyPosition(data[j], ship) /\ i <= j

\* the first position of the storage list that holds a best competing record
FirstSeen(data, ship) ==
    CHOOSE i \in BestCompeting(data, ship) : \A j \in BestCompeting(data, ship) : i <= j

\* C4 as stated: the record selected has the highest score, among records of
\* equal score the most recent parsed timestamp (a missing or unparseable one
\* counting as the earliest possible), and among records still tied it is the
\* first-seen record of the storage list.
C4_FirstSeenKept ==
    ships # <<>> =>
        IF Competing(storageData, ships[1]) = {} THEN Selected = NoRecord
        ELSE Selected = storageData[FirstSeen(storageData, ships[1])]

\* C4 amended: the record selected has the highest score, among records of
\* equal score the most recent parsed timestamp (a missing or unparseable one
\* counting as the earliest possible); among records still tied it is the one
\* filed under the earliest of the ship's lookup candidates, and among those
\* the first-seen record of the storage list.
C4_FirstReachedKept ==
    ships # <<>> =>
        IF Competing(storageData, ships[1]) = {} THEN Selected = NoRecord
        ELSE Selected = storageData[FirstReached(storageData, ships[1])]

\* two records of equal score compete, the first without a parseable
\* timestamp, and the second, which has one, is selected
C4_Witness ==
    /\ Len(ships) = 1
    /\ Len(storageData) = 2
    /\ Competing(storageData, ships[1]) = {1, 2}
    /\ evaluateStorageRecord(storageData[1]).score = evaluateStorageRecord(storageData[2]).score
    /\ storageData[1].Timestamp = BadTimestamp
    /\ evaluateStorageRecord(storageData[1]).timestamp = MinusInfinity
    /\ evaluateStorageRecord(storageData[2]).timestamp > MinusInfinity
    /\ Selected = storageData[2]

-----------------------------------------------------------------------------
(* ShipmentContractMatcher: claims *)

\* the condition index an entry is ordered by, none counting as the greatest
OrderIndex(entry) ==
    IF entry.conditionIndex = NoNumber THEN InfiniteIndex ELSE entry.conditionIndex

\* C5: every per-item list of the shipment-contract index is ordered by
\* condition index ascending, entries without a numeric index after all indexed
\* ones, entries of equal index by condition type; conditions pushed with
\* indices 2 and 0 for one shipment item come out as [index 0, index 2].
C5_ListsSorted ==
    \A key \in DOMAIN shipmentContractsByItemId :
        \A i, j \in 1..Len(shipmentContractsByItemId[key]) :
            i < j =>
                /\ OrderIndex(shipmentContractsByItemId[key][i])
                      <= OrderIndex(shipmentContractsByItemId[key][j])
                /\ (shipmentContractsByItemId[key][i].conditionIndex # NoNumber
                      \/ shipmentContractsByItemId[key][j].conditionIndex = NoNumber)
                /\ (OrderIndex(shipmentContractsByItemId[key][i])
                      = OrderIndex(shipmentContractsByItemId[key][j])
                    => ~LocaleBefore(shipmentContractsByItemId[key][j].conditionType,
                                     shipmentContractsByItemId[key][i].conditionType))

\* the contracts list a condition without index, then conditions with the
\* indices 2 and 0, all for one shipment item, and its list is [0, 2, none]
C5_Witness ==
    /\ Len(contracts) = 2
    /\ Len(contracts[1].Conditions) = 1
    /\ contracts[1].Conditions[1].ConditionIndex = NoNumber
    /\ Len(contracts[2].Conditions) = 2
    /\ contracts[2].Conditions[1].ConditionIndex = 2
    /\ contracts[2].Conditions[2].ConditionIndex = 0
    /\ IdI1 \in DOMAIN shipmentContractsByItemId
    /\ Len(shipmentContractsByItemId[IdI1]) = 3
    /\ shipmentContractsByItemId[IdI1][1].conditionIndex = 0
    /\ shipmentContractsByItemId[IdI1][2].conditionIndex = 2
    /\ shipmentContractsByItemId[IdI1][3].conditionIndex = NoNumber

-----------------------------------------------------------------------------
(* ShipLoadAggregator: claims *)

\* C10: the ShipLoadInfo obtained for a ship by getShipLoadInfoById on its
\* primary id is the one considerShip builds from that ship's record, the
\* storage index and the shipment-contract index, whatever the order of the
\* ships list and whatever other ships are in it.
C10_InfoOfOwnRecord ==
    \A i \in 1..Len(ships) :
        normalizeLookupKey(getPrimaryShipId(ships[i])) # Null =>
            getShipLoadInfoById(shipLoadInfo, getPrimaryShipId(ships[i]))
                = ShipInfo(storageIndex, shipmentContractsByItemId, ships[i])

-----------------------------------------------------------------------------
(* FlightPositionInterpolator: claims *)

\* the latest call returned a position on a segment
HasProgress(result) == result # NoPosition /\ "progress" \in DOMAIN result

\* 0 <= progress <= 1
InUnitInterval(progress) == 0 <= progress.n /\ progress.n <= progress.d /\ progress.d > 0

\* C6: for fixed segment pairs and fixed flight and ship records the progress
\* returned by interpolateShipPosition never decreases as the evaluation time
\* increases, and it is always within [0,1].
C6_ProgressMonotone ==
    [][/\ HasProgress(position') => InUnitInterval(position'.progress)
       /\ (/\ segmentPairs' = segmentPairs
           /\ activeFlight' = activeFlight
           /\ flightShip' = flightShip
           /\ now' >= now
           /\ HasProgress(position)
           /\ HasProgress(position'))
          => RatioLeq(position.progress, position'.progress)]_vars

\* a call during the flight of the active segment returned a progress strictly
\* between 0 and 1 computed from the time bounds
C6_Witness ==
    /\ HasProgress(position)
    /\ TruthyNumber(position.timeBounds.departure)
    /\ now > position.timeBounds.departure
    /\ 0 < position.progress.n
    /\ position.progress.n < position.progress.d

\* the hint into the range of the segment list
ClampIndex(hint, length) ==
    IF hint < 0 THEN 0 ELSE IF hint > length - 1 THEN length - 1 ELSE hint

\* the active segment the hints call for: the flight's numeric hint, else the
\* ship's, else the last segment
ExpectedIndex ==
    IF IsNumberValue(HintOf(activeFlight))
    THEN ClampIndex(HintOf(activeFlight), Len(segmentPairs))
    ELSE IF IsNumberValue(flightShip.CurrentSegmentIndex)
    THEN ClampIndex(flightShip.CurrentSegmentIndex, Len(segmentPairs))
    ELSE Len(segmentPairs) - 1

\* no hint, two segments, the first over and the second half elapsed
TwoSegmentScenario ==
    /\ Len(segmentPairs) = 2
    /\ flightShip # NoShip
    /\ ~IsNumberValue(HintOf(activeFlight))
    /\ ~IsNumberValue(flightShip.CurrentSegmentIndex)
    /\ TruthyNumber(segmentPairs[1].timeBounds.arrival)
    /\ now > segmentPairs[1].timeBounds.arrival
    /\ TruthyNumber(segmentPairs[2].timeBounds.departure)
    /\ TruthyNumber(segmentPairs[2].timeBounds.arrival)
    /\ segmentPairs[2].timeBounds.arrival > segmentPairs[2].timeBounds.departure
    /\ 2 * (now - segmentPairs[2].timeBounds.departure)
          = segmentPairs[2].timeBounds.arrival - segmentPairs[2].timeBounds.departure

-----------------------------------------------------------------------------
(* LocationDetailExtractor: claims *)

\* the entry names a planet: a string or an identifier that the planet lookups
\* know, or an entry of type planet with a name or an identifier
SuppliesPlanet(env, entry) ==
    IF entry.isString THEN ResolvesPlanet(env, entry.value)
    ELSE \/ \E id \in {entry.PlanetNaturalId, entry.Id, entry.NaturalId} : ResolvesPlanet(env, id)
         \/ /\ TypeOf(entry) = planet
            /\ Truthy(entry.Name) \/ Truthy(entry.NaturalId) \/ Truthy(entry.Id)

\* the entry names a station: an entry of type station with a name or an identifier
SuppliesStation(entry) ==
    /\ ~entry.isString
    /\ TypeOf(entry) = station
    /\ \/ Truthy(entry.Name) \/ Truthy(entry.StationName)
       \/ Truthy(entry.NaturalId) \/ Truthy(entry.StationId) \/ Truthy(entry.Id)

\* the entry names a system: a non-empty string, or an object with a name, an
\* identifier, a system natural id or a system id that resolves
SuppliesSystem(env, entry) ==
    IF entry.isString THEN Truthy(entry.value)
    ELSE \/ Truthy(entry.Name) \/ Truthy(entry.NaturalId) \/ Truthy(entry.Id)
         \/ Truthy(entry.SystemNaturalId)
         \/ Truthy(ResolveIn(env, entry.SystemId))

\* the most specific kind some entry of the list supplies a label for
MostSpecificKind(env, entries) ==
    IF \E i \in 1..Len(entries) : SuppliesPlanet(env, entries[i]) THEN "planet"
    ELSE IF \E i \in 1..Len(entries) : SuppliesStation(entries[i]) THEN "station"
    ELSE IF \E i \in 1..Len(entries) : SuppliesSystem(env, entries[i]) THEN "system"
    ELSE "none"

\* entries a and b are a station entry and a system-name string for the
\* station's system, neither naming a planet
StationAndSystemName(env, a, b) ==
    /\ ~a.isString
    /\ SuppliesStation(a)
    /\ ~SuppliesPlanet(env, a)
    /\ b.isString
    /\ ~SuppliesPlanet(env, b)
    /\ Truthy(ResolveIn(env, b.value))
    /\ ResolveIn(env, b.value) = ResolveIn(env, a.SystemId)

\* C7: extractLocationDetails reports as displayKind the most specific kind
\* for which any entry supplied a label (planet before station before system),
\* whatever the order of the entries; a station entry and a system-name string
\* for the same system yield "station"; a planet-level label is never replaced
\* by a system-level one.
C7_MostSpecificKind ==
    location # NoDetail =>
        /\ location.displayKind = MostSpecificKind(Env, lines)
        /\ (Len(lines) = 2
            /\ (StationAndSystemName(Env, lines[1], lines[2])
                \/ StationAndSystemName(Env, lines[2], lines[1])))
           => location.displayKind = "station"
        /\ (\E i \in 1..Len(lines) : SuppliesPlanet(Env, lines[i]))
           => location.displayKind = "planet" /\ location.displayPriority = 0

\* the system-name string comes first and the station entry for the same
\* system second, and the details say station
C7_Witness ==
    /\ Len(lines) = 2
    /\ StationAndSystemName(Env, lines[2], lines[1])
    /\ location # NoDetail
    /\ location.displayKind = "station"
    /\ location.systemId = SysId1

\* a flight that is not null and has no null segment
WellFormedFlight(flight) ==
    /\ flight # NoFlight
    /\ \A i \in 1..Len(flight.Segments) : flight.Segments[i] # NoSegment

\* C9: a pass of renderOverlay raises no exception, evaluates every flight
\* that is not null and has no null segment, whatever the name of its ship,
\* and hands every ship that has a key on as in flight or as idle.
C9_OmitsAtMostTheMalformed ==
    /\ renderError = "none"
    /\ Len(flightDiagnostics)
         >= Cardinality({i \in 1..Len(flights) : WellFormedFlight(flights[i])})
    /\ \A i \in 1..Len(ships) :
          Truthy(ShipKeyOf(ships[i]))
             => ShipKeyOf(ships[i]) \in activeShipIds \cup Range(idleShipIds)


-----------------------------------------------------------------------------
(* Lookup tables: claims *)

\* the data snapshots the tables are built from
Snapshots ==
    <<storageData, ships, contracts, systemNames, universeData, graphNodes, planetData, flights>>

\* the memoised tables
Tables == <<storageIndex, shipmentContractsByItemId, shipLoadInfo, systemLookups, planetLookups>>

\* the state that is neither a snapshot, nor a table, nor the score cache
BesidesTables ==
    <<candidate, resolved, lines, location, selectVars, interpVars, flightDiagnostics,
      activeShipIds, flightPositions, idleShipIds, renderError, timedActiveShipIds,
      markers, contextVars>>

\* C11 as stated: building a lookup table again from the same data snapshot
\* yields an equal table, leaves the input records unchanged, and writes to
\* no state other than the newly built table.
C11_RebuildWritesOnlyTheTable ==
    [][refetched' =>
          /\ Tables' = Tables
          /\ Snapshots' = Snapshots
          /\ BesidesTables' = BesidesTables
          /\ scoreCacheWrites' = {}]_vars

\* C11 amended: building a lookup table again from the same data snapshot
\* yields an equal table, leaves the input records unchanged, and writes to
\* no state other than the newly built table and storageRecordScoreCache, to
\* which it adds, for storage records of the snapshot only, their evaluation.
C11_RebuildWritesTableAndScoreCache ==
    [][refetched' =>
          /\ Tables' = Tables
          /\ Snapshots' = Snapshots
          /\ BesidesTables' = BesidesTables
          /\ scoreCacheWrites' \subseteq Range(storageData)
          /\ \A record \in DOMAIN storageRecordScoreCache' :
                storageRecordScoreCache'[record] = evaluateStorageRecord(record)]_vars

\* the tables have been built again from snapshots that are not empty, and the
\* build has written evaluations to the score cache
C11_Witness ==
    /\ refetched
    /\ storageIndex # EmptyMap
    /\ shipmentContractsByItemId # EmptyMap
    /\ shipLoadInfo # EmptyMap
    /\ planetLookups.byId # EmptyMap
    /\ scoreCacheWrites # {}

-----------------------------------------------------------------------------
(* StorageRecordSelector: ship holds against plain stores *)

\* the Type of the record normalizes to "shipstore" and the record carries a
\* numeric capacity field
IsShipStoreWithCapacity(record) ==
    /\ record.Type # Null
    /\ SelectSeq(toLowerCase(record.Type), IsLower) = TypeShipStoreLower
    /\ (HasNumeric(record.WeightCapacity) \/ HasNumeric(record.VolumeCapacity))

\* the Type of the record normalizes to "store" and the record carries no
\* capacity field
IsPlainStore(record) ==
    /\ record.Type # Null
    /\ SelectSeq(toLowerCase(record.Type), IsLower) = <<"s","t","o","r","e">>
    /\ ~HasNumeric(record.WeightCapacity)
    /\ ~HasNumeric(record.VolumeCapacity)

\* C12: when a "shipstore" record with capacity fields and a plain "store"
\* record without capacity fields both compete for a ship, the record
\* selected for the ship is never the "store" record and ranks no lower than
\* the "shipstore" record, whatever the other fields, the timestamps and the
\* order of the two in the storage list; with no third record competing the
\* "shipstore" record is the one selected.
C12_ShipStoreOverStore ==
    ships # <<>> =>
        \A i, j \in Competing(storageData, ships[1]) :
            (IsShipStoreWithCapacity(storageData[i]) /\ IsPlainStore(storageData[j])) =>
                /\ Selected # storageData[j]
                /\ Selected \in {storageData[k] : k \in Competing(storageData, ships[1])}
                /\ ~RanksBelow(Selected, storageData[i])
                /\ Competing(storageData, ships[1]) = {i, j} => Selected = storageData[i]

\* a "store" record with loads, a name and the later timestamp comes first in
\* the list, a "shipstore" record with nothing but one capacity comes second,
\* and the second is the one selected
C12_Witness ==
    /\ ships # <<>>
    /\ Len(storageData) = 2
    /\ Competing(storageData, ships[1]) = {1, 2}
    /\ IsPlainStore(storageData[1])
    /\ HasNumeric(storageData[1].WeightLoad)
    /\ storageData[1].Timestamp = Year2025
    /\ IsShipStoreWithCapacity(storageData[2])
    /\ storageData[2].Timestamp = Null
    /\ Selected = storageData[2]

-----------------------------------------------------------------------------
(* SystemResolver: the order of the lookups *)

\* table.get(key), Null when the table has no such key
LookupIn(table, key) == IF key \in DOMAIN table THEN table[key] ELSE Null

\* (1) the value is a known system id
StepExactId(value) ==
    IF IsKnownSystemId(systemNames, graphNodes, PropertyKey(value)) THEN value ELSE Null

\* (2) the text, lower-cased, in the name table
StepName(text) == LookupIn(systemLookups.byName, toLowerCase(text))

\* (3) the text, lower-cased and cleaned, in the name table
StepCleanedName(text) ==
    IF cleanName(toLowerCase(text)) = <<>> THEN Null
    ELSE LookupIn(systemLookups.byName, cleanName(toLowerCase(text)))

\* (4) as stated: the parenthesized code the text ends with, in the natural-id table
StepTrailingCode(text) ==
    IF \E i \in 1..Len(text) : ParenAt(text, i, Len(text))
    THEN LookupIn(systemLookups.byNaturalId,
             toUpperCase(SubSeq(text, 1 + (CHOOSE i \in 1..Len(text) : ParenAt(text, i, Len(text))),
                                Len(text) - 1)))
    ELSE Null

\* (4) the first parenthesized code of the text, wherever it stands, in the
\* natural-id table
StepFirstCode(text) ==
    IF HasParenMatch(text)
    THEN LookupIn(systemLookups.byNaturalId, toUpperCase(parenMatch(text)))
    ELSE Null

\* (5) the text, upper-cased, in the natural-id table
StepNaturalId(text) == LookupIn(systemLookups.byNaturalId, toUpperCase(text))

\* the first hit of the steps
FirstHit(hits) ==
    IF \E i \in 1..Len(hits) : hits[i] # Null
    THEN hits[CHOOSE i \in 1..Len(hits) :
                  hits[i] # Null /\ \A j \in 1..(i - 1) : hits[j] = Null]
    ELSE Null

\* what the steps yield for a candidate, step (4) given
ResultOfSteps(cand, codeHit) ==
    IF Falsy(cand) THEN Null
    ELSE IF StepExactId(cand) # Null THEN cand
    ELSE IF ~IsStringValue(cand) THEN Null
    ELSE FirstHit(<<StepName(cand), StepCleanedName(cand), codeHit, StepNaturalId(cand)>>)

Trimmed(cand) == IF IsStringValue(cand) THEN trim(cand) ELSE cand

\* C13 as stated: resolveSystemId returns the first hit of: exact known system
\* id, the name table (trimmed, case-insensitive), the name table with the
\* token "station" and non-alphanumeric characters stripped, the trailing
\* parenthesized code in the natural-id table, the whole string upper-cased
\* in the natural-id table; and none when no step matches, null, empty,
\* numeric and object candidates included.
C13_FirstHitWithTrailingCode ==
    resolved = ResultOfSteps(Trimmed(candidate),
                   IF IsStringValue(candidate) THEN StepTrailingCode(Trimmed(candidate)) ELSE Null)

\* C13 amended: as stated, but step (4) takes the first parenthesized run of
\* letters, digits and hyphens anywhere in the string, trailing or not, and
\* no later one.
C13_FirstHitWithFirstCode ==
    resolved = ResultOfSteps(Trimmed(candidate),
                   IF IsStringValue(candidate) THEN StepFirstCode(Trimmed(candidate)) ELSE Null)

\* a candidate with a parenthesized code that text follows was resolved by
\* that code, no other step matching
C13_Witness ==
    /\ candidate = <<"(","x","-","1",")","z">>
    /\ resolved = SysId2
    /\ StepExactId(candidate) = Null
    /\ StepName(candidate) = Null
    /\ StepCleanedName(candidate) = Null
    /\ StepNaturalId(candidate) = Null

-----------------------------------------------------------------------------
(* LocationSelector: explicit identifiers among equal priorities *)

\* C14: among the candidates of the displayPriority of the one returned, a
\* candidate that carries an explicit station or planet id or natural id is
\* chosen over a candidate that carries none, whichever comes first in the
\* argument list and whatever their labels: the candidate returned carries
\* none only if no candidate of its priority carries one.
C14_IdentifiedOverUnidentified ==
    (selected[1] /\ selected[2] # NoDetail) =>
        \A c \in NonNullCandidates :
            (derivedPriority(c) = derivedPriority(selected[2]) /\ hasExplicitIdentifier(c))
                => hasExplicitIdentifier(selected[2])

-----------------------------------------------------------------------------
(* LocationDetailExtractor: attributes filled from left to right *)

\* the attributes C15 names
FilledAttributes ==
    {"systemId", "systemName", "planetId", "planetNaturalId", "planetName",
     "stationId", "stationNaturalId", "stationName"}

\* the variables of the call after its first k entries
AfterEntries(k) == ApplyEntries(InitialDetails, Env, SubSeq(lines, 1, k))

\* C15 as stated: while the entries are processed from left to right, each
\* attribute, once set to a non-null value, keeps that value for the rest of
\* the call, up to the object returned.
C15_NonNullKept ==
    location # NoDetail =>
        \A k \in 1..Len(lines) : \A attr \in FilledAttributes :
            AfterEntries(k)[attr] # Null =>
                /\ location[attr] = AfterEntries(k)[attr]
                /\ \A m \in k..Len(lines) : AfterEntries(m)[attr] = AfterEntries(k)[attr]

\* C15 amended: each attribute, once set to a value that is neither null nor
\* the empty string, keeps that value for the rest of the call, up to the
\* object returned; an attribute holding the empty string counts as empty.
C15_NonEmptyKept ==
    location # NoDetail =>
        \A k \in 1..Len(lines) : \A attr \in FilledAttributes :
            Truthy(AfterEntries(k)[attr]) =>
                /\ location[attr] = AfterEntries(k)[attr]
                /\ \A m \in k..Len(lines) : AfterEntries(m)[attr] = AfterEntries(k)[attr]

\* the first of two entries set an attribute, the second, taken alone, sets
\* it to another value, and the value of the first is the one returned
C15_Witness ==
    /\ Len(lines) = 2
    /\ location # NoDetail
    /\ \E attr \in FilledAttributes :
          /\ Truthy(AfterEntries(1)[attr])
          /\ Truthy(ApplyEntries(InitialDetails, Env, <<lines[2]>>)[attr])
          /\ ApplyEntries(InitialDetails, Env, <<lines[2]>>)[attr] # AfterEntries(1)[attr]
          /\ location[attr] = AfterEntries(1)[attr]

-----------------------------------------------------------------------------
(* ShipmentContractMatcher: the conditions indexed *)

\* the type, upper-cased and stripped of everything but letters, is the
\* delivery-shipment token
DenotesDeliveryShipment(type) ==
    /\ type # Null
    /\ SelectSeq(toUpperCase(type), IsUpper) \in {DELIVERYSHIPMENT, DELIVERSHIPMENT}

\* the conditions of the contracts list
ConditionsOf(list) ==
    UNION { Range(list[c].Conditions) : c \in 1..Len(list) }

\* C16: every entry of the shipment-contract index comes from a condition of
\* the contracts whose type normalizes to the delivery-shipment token and
\* whose shipment-item id is not empty, and is filed under that id, trimmed
\* and lower-cased; a condition of any other type has no entry, even in a
\* contract that qualifies as a delivery-shipment contract.
C16_OnlyDeliveryShipmentConditions ==
    /\ \A key \in DOMAIN shipmentContractsByItemId :
          \A i \in 1..Len(shipmentContractsByItemId[key]) :
              /\ shipmentContractsByItemId[key][i].condition \in ConditionsOf(contracts)
              /\ DenotesDeliveryShipment(shipmentContractsByItemId[key][i].condition.Type)
              /\ Truthy(rawShipmentItemId(shipmentContractsByItemId[key][i].condition))
              /\ key # <<>>
              /\ key = toLowerCase(trim(rawShipmentItemId(
                            shipmentContractsByItemId[key][i].condition)))
    /\ \A condition \in ConditionsOf(contracts) :
          ~DenotesDeliveryShipment(condition.Type) =>
              \A key \in DOMAIN shipmentContractsByItemId :
                  \A i \in 1..Len(shipmentContractsByItemId[key]) :
                      shipmentContractsByItemId[key][i].condition # condition

\* a delivery-shipment contract with a payment condition for item i1 and a
\* delivery-shipment condition for item i2 is indexed under i2 alone
C16_Witness ==
    /\ Len(contracts) = 1
    /\ DenotesDeliveryShipment(contracts[1].Type)
    /\ Len(contracts[1].Conditions) = 2
    /\ contracts[1].Conditions[1].Type = TypePayment
    /\ contracts[1].Conditions[1].ShipmentItemId = IdI1
    /\ DenotesDeliveryShipment(contracts[1].Conditions[2].Type)
    /\ DOMAIN shipmentContractsByItemId = {IdI2}
    /\ Len(shipmentContractsByItemId[IdI2]) = 1
    /\ shipmentContractsByItemId[IdI2][1].condition = contracts[1].Conditions[2]

-----------------------------------------------------------------------------
(* ShipLoadAggregator: the ratios of one ship *)

\* the ShipLoadInfo of the one ship of the list
InfoOfShip == getShipLoadInfoById(shipLoadInfo, getPrimaryShipId(ships[1]))

\* what the sources of the ship (its storage record, its embedded Storage,
\* the ship itself) report for a field
Reported(field) == PickLoadField(SelectStorageRecord(storageIndex, ships[1]), ships[1], field)

\* the percentage the sources of the ship report
ReportedPercent ==
    pickFromSources(<<FieldOf(SelectStorageRecord(storageIndex, ships[1]), "PercentFull"),
                      FieldOf(shipStorageSource(ships[1]), "PercentFull"),
                      ships[1].PercentFull,
                      ships[1].CargoPercentFull>>)

\* a dimension has a ratio: its load is present and its capacity is > 0
HasDimension(loadField, capacityField) ==
    /\ Reported(loadField) # NoNumber
    /\ Reported(capacityField) # NoNumber
    /\ Reported(capacityField) > 0

AtLeastZero(n) == IF n < 0 THEN 0 ELSE n

\* load / capacity as a quotient not reduced, a negative load counting as 0
Quotient(loadField, capacityField) ==
    [n |-> AtLeastZero(Reported(loadField)), d |-> Reported(capacityField)]

\* the available ratios: one per dimension that has one, and the percentage,
\* divided by 100 when above 1.5
AvailableRatios ==
    (IF HasDimension("VolumeLoad", "VolumeCapacity")
     THEN {Quotient("VolumeLoad", "VolumeCapacity")} ELSE {})
    \cup (IF HasDimension("WeightLoad", "WeightCapacity")
         THEN {Quotient("WeightLoad", "WeightCapacity")} ELSE {})
    \cup (IF ReportedPercent = NoNumber THEN {}
         ELSE IF 2 * ReportedPercent > 3 THEN {[n |-> ReportedPercent, d |-> 100]}
         ELSE {[n |-> AtLeastZero(ReportedPercent), d |-> 1]})

SameQuotient(a, b) == a.n * b.d = b.n * a.d
QuotientAtMost(a, b) == a.n * b.d <= b.n * a.d

\* the ratio of the info is that of the dimension, and null without one
DimensionAsReported(ratio, loadField, capacityField) ==
    IF HasDimension(loadField, capacityField)
    THEN ratio # NoRatio /\ SameQuotient(ratio, Quotient(loadField, capacityField))
    ELSE ratio = NoRatio

\* C17: in the ShipLoadInfo of a ship the overall ratio is the maximum of the
\* available ratios: load / capacity of each dimension whose load is present
\* and whose capacity is > 0, and the reported percentage, divided by 100
\* when it is above 1.5; it is null when none is available. Every ratio of
\* the info is >= 0, a negative load or percentage counting as 0, and none is
\* capped at 1.
C17_RatioIsMaximum ==
    (ships # <<>> /\ InfoOfShip # NoInfo) =>
        /\ DimensionAsReported(InfoOfShip.volumeRatio, "VolumeLoad", "VolumeCapacity")
        /\ DimensionAsReported(InfoOfShip.weightRatio, "WeightLoad", "WeightCapacity")
        /\ AvailableRatios = {} => InfoOfShip.ratio = NoRatio
        /\ AvailableRatios # {} =>
              /\ InfoOfShip.ratio # NoRatio
              /\ InfoOfShip.ratio.n >= 0 /\ InfoOfShip.ratio.d > 0
              /\ \E r \in AvailableRatios : SameQuotient(r, InfoOfShip.ratio)
              /\ \A r \in AvailableRatios : QuotientAtMost(r, InfoOfShip.ratio)

\* a ship loaded with 750 of a weight capacity of 500 that reports 50 percent
\* has the weight ratio 3/2 and the overall ratio 3/2
C17_Witness ==
    /\ ships # <<>>
    /\ ships[1].WeightCapacity = 500
    /\ ships[1].WeightLoad = 750
    /\ ships[1].CargoPercentFull = 50
    /\ InfoOfShip # NoInfo
    /\ InfoOfShip.weightRatio = [n |-> 3, d |-> 2]
    /\ InfoOfShip.ratio = [n |-> 3, d |-> 2]

-----------------------------------------------------------------------------
(* ShipLoadAggregator: ships without ShipLoadInfo *)

\* no source of the ship reports a capacity, a load or a percentage
NoLoadSignal ==
    /\ Reported("VolumeCapacity") = NoNumber
    /\ Reported("WeightCapacity") = NoNumber
    /\ Reported("VolumeLoad") = NoNumber
    /\ Reported("WeightLoad") = NoNumber
    /\ ReportedPercent = NoNumber

\* the shipments collected from the storage record of the ship and from its
\* embedded Storage
CollectedShipments ==
    collectShipmentsFromRecord(shipmentContractsByItemId, shipStorageSource(ships[1]),
        collectShipmentsFromRecord(shipmentContractsByItemId,
            SelectStorageRecord(storageIndex, ships[1]), <<<<>>, {}>>))[1]

\* C18 as stated: no ShipLoadInfo is recorded for a ship that has no capacity
\* signal, no load signal (weight, volume or percentage, from the storage
\* record, the embedded storage or the ship itself) and no matched shipments,
\* the shipments of a ship being the storage items collected for it.
C18_NoInfoWithoutSignal ==
    (ships # <<>> /\ NoLoadSignal /\ CollectedShipments = <<>>) => InfoOfShip = NoInfo

\* C18 amended: no ShipLoadInfo is recorded for a ship for which no storage
\* record is resolved, that has no capacity signal and no load signal, and
\* for which no shipment is collected.
C18_NoInfoWithoutRecordOrSignal ==
    (/\ ships # <<>>
     /\ SelectStorageRecord(storageIndex, ships[1]) = NoRecord
     /\ NoLoadSignal
     /\ CollectedShipments = <<>>) => InfoOfShip = NoInfo

\* storage records are loaded, none of them is the ship's, the ship carries
\* an embedded Storage without fields, and nothing is recorded for the ship
C18_Witness ==
    /\ ships # <<>>
    /\ storageData # <<>>
    /\ ships[1].StorageId = Null
    /\ NoLoadSignal
    /\ CollectedShipments = <<>>
    /\ InfoOfShip = NoInfo
    /\ shipLoadInfo = EmptyMap

-----------------------------------------------------------------------------
(* ShipLoadAggregator: the shipments of one ship *)

\* the shipments of the ShipLoadInfo of the one ship of the list
ShipmentsOfShip == IF InfoOfShip = NoInfo THEN <<>> ELSE InfoOfShip.shipments

\* the items of a record that may be null
ItemsOf(record) == IF record = NoRecord THEN {} ELSE Range(record.StorageItems)

\* the key an item is known by wherever it is stored: the contract key it
\* matches, else its material id, else its shipment-item id; Null without any
ItemKey(item) ==
    FirstTruthy(<<MatchedKey(shipmentContractsByItemId,
                             <<item.ShipmentItemId, item.MaterialId, item.Id>>),
                  normalizeLookupKey(item.MaterialId),
                  normalizeLookupKey(item.ShipmentItemId)>>)

-----------------------------------------------------------------------------
(* FlightPositionInterpolator: the source of the progress *)

\* the segment record of the active segment of the latest call
ActiveSegment == segmentPairs[position.segmentIndex + 1].segment

\* an epoch or a duration that is reported: neither missing nor 0
Exists(value) == value # NoNumber /\ value # 0

\* the first of two fields that is not missing
Reading(first, second) == IF first # NoNumber THEN first ELSE second

ActiveDeparture == Reading(ActiveSegment.DepartureEpochMs, ActiveSegment.DepartureTimeEpochMs)

ActiveArrival == Reading(ActiveSegment.ArrivalEpochMs, ActiveSegment.ArrivalTimeEpochMs)

\* result is n / d brought into [0,1], for d > 0
IsClamped(result, n, d) ==
    IF n <= 0 THEN result.n = 0
    ELSE IF n >= d THEN result.n = result.d
    ELSE result.n * d = n * result.d

\* the explicit progress fields that hold a number: the flight's, then the ship's
ReportedProgress ==
    SelectSeq(<<ProgressOf(activeFlight), flightShip.Progress>>,
              LAMBDA value : value # NoRatio /\ value # NaNProgress)

TimeFractionApplies ==
    Exists(ActiveDeparture) /\ Exists(ActiveArrival) /\ ActiveArrival > ActiveDeparture

DurationApplies ==
    Exists(ActiveSegment.DurationMs) /\ ActiveSegment.DurationMs > 0 /\ Exists(ActiveDeparture)

\* C20: interpolateShipPosition computes the progress from the first source
\* that applies, in this order: the time fraction between departure and
\* arrival when both exist and arrival > departure; else the time elapsed over
\* the reported duration when duration and departure exist; else an explicit
\* progress field brought into [0,1]; else 1 when the active segment is the
\* final segment and 0 otherwise.
C20_FirstApplicableSource ==
    HasProgress(position) =>
        IF TimeFractionApplies
        THEN IsClamped(position.progress, now - ActiveDeparture, ActiveArrival - ActiveDeparture)
        ELSE IF DurationApplies
        THEN IsClamped(position.progress, now - ActiveDeparture, ActiveSegment.DurationMs)
        ELSE IF ReportedProgress # <<>>
        THEN IsClamped(position.progress, ReportedProgress[1].n, ReportedProgress[1].d)
        ELSE IF position.segmentIndex = Len(segmentPairs) - 1
        THEN position.progress = [n |-> 1, d |-> 1]
        ELSE position.progress = [n |-> 0, d |-> 1]

\* departure 2, arrival 4 and duration 8 at time 3 with an explicit progress
\* of 3/2: the three sources give 1/2, 1/8 and 1, and the call returned 1/2
C20_Witness ==
    /\ HasProgress(position)
    /\ ActiveSegment = TimedSegment(2, 4, 8)
    /\ now = 3
    /\ ReportedProgress # <<>>
    /\ ReportedProgress[1] = [n |-> 3, d |-> 2]
    /\ position.progress = [n |-> 1, d |-> 2]

-----------------------------------------------------------------------------
(* FlightPositionInterpolator: what a call returns *)

\* the segment info the hints make the active one
ActiveInfo == segmentPairs[ExpectedIndex + 1]

\* a call for a ship over a list of segments
CalledWithSegments == flightShip # NoShip /\ segmentPairs # <<>>

\* result carries a position, a heading along the active segment, the index
\* of the active segment and a progress in [0,1]
IsFullResult(result) ==
    /\ result # NoPosition
    /\ {"x", "y", "direction", "segmentIndex", "progress"} \subseteq DOMAIN result
    /\ result.segmentIndex = ExpectedIndex
    /\ InUnitInterval(result.progress)
    /\ result.direction.dx = ActiveInfo.toCenter.x - ActiveInfo.fromCenter.x
    /\ result.direction.dy = ActiveInfo.toCenter.y - ActiveInfo.fromCenter.y
    /\ result.direction.lengthSquared > 0
    /\ result.direction.lengthSquared
          \in {1, result.direction.dx * result.direction.dx
                     + result.direction.dy * result.direction.dy}

-----------------------------------------------------------------------------
(* renderOverlay: flights that have arrived *)

\* the pass ran on one flight of a ship of the list and interpolated its position
OneFlightInterpolated ==
    /\ renderError = "none"
    /\ Len(flights) = 1
    /\ Truthy(flights[1].ShipId)
    /\ Len(flightPositions) = 1
    /\ HasProgress(flightPositions[1])

\* the flight is on its final segment with a progress of 99.9 % or more
OnFinalSegmentArrived ==
    /\ flightPositions[1].segmentIndex = flightPositions[1].totalSegments - 1
    /\ flightPositions[1].progress.n * 1000 >= 999 * flightPositions[1].progress.d

\* with the ship ids in active the pass treats the flight as over exactly when
\* it has arrived: its ship is left to the idle ships, and is in transit before
ArrivedFlightIsIdle(active) ==
    OneFlightInterpolated => (OnFinalSegmentArrived <=> flights[1].ShipId \notin active)

\* the claim for the later copy of the component, which fills activeShipIds
\* with every flight that has segment pairs
ArrivedIsIdleInLaterCopy == ArrivedFlightIsIdle(activeShipIds)

\* the claim for the older copy of the component, which asks isFlightActive
ArrivedIsIdleInOlderCopy == ArrivedFlightIsIdle(timedActiveShipIds)

\* the ship of an arrived flight is handed on as an idle ship by the later copy
ArrivedShipRenderedIdle ==
    (OneFlightInterpolated /\ OnFinalSegmentArrived) =>
        \E i \in 1..Len(idleShipIds) : idleShipIds[i] = flights[1].ShipId

\* C22: a flight is no longer active once the progress on its final segment
\* reaches 99.9 %: from then on its vehicle is treated as arrived, rendered as
\* an idle ship, and before that point a flight with segments is treated as in
\* transit. Stated for both copies of the component.
C22_ArrivedIsIdle ==
    /\ ArrivedIsIdleInLaterCopy
    /\ ArrivedShipRenderedIdle
    /\ ArrivedIsIdleInOlderCopy

-----------------------------------------------------------------------------
(* GraphProvider: responses and runs of the data-fetch effect *)

\* the four user-specific collections of the provider
Collections == <<providerShips, providerFlights, providerStorageData, providerContracts>>

\* the step handled the response to a request
Responded(request) ==
    /\ request \in requests
    /\ request \notin requests'
    /\ effectRuns' = effectRuns

\* the request was sent by the run of the effect that is the current one of a
\* mounted provider
OfCurrentRun(request) == mounted /\ request.run = effectRuns

\* C23: a response to a request that the current run of the data-fetch effect
\* did not send (the effect has run again since, or the provider has
\* unmounted) leaves ships, flights, storageData and contracts as they are;
\* when a response changes one of them, its request is one of the current run.
C23_OnlyCurrentRunWrites ==
    [][ \A request \in requests :
            Responded(request) /\ ~OfCurrentRun(request) => Collections' = Collections ]_vars

\* C23 as stated: a response that arrives after the auth token or the user
\* name has changed, or after unmount, never writes.
C23_NoWriteAfterChange ==
    handled # NoRequest /\ (handled.changed \/ handled.unmounted) => ~handled.wrote

\* a response of an earlier run arrived after the effect had run again for a
\* new token or user, and was dropped
C23_Witness ==
    /\ handled # NoRequest
    /\ handled.run < effectRuns
    /\ handled.changed
    /\ ~handled.wrote
    /\ Truthy(contextAuthToken)

\* the auth token is not usable: null, empty or blank
Unusable(token) == ~Truthy(token) \/ headerValue(token) = <<>>

C25_ContractsAreLatestSnapshot ==
    mounted /\ contextAuthToken = SIL_TRACKER_API_KEY /\ lastSnapshot # NoSnapshot =>
        providerContracts = lastSnapshot.contracts

-----------------------------------------------------------------------------
(* renderOverlay: the markers of one pass *)

\* the kinds of marker the pass drew for the ship
MarkersOf(ship) == {i \in 1..Len(markers) : markers[i].ship = ship}

\* a ship with an in-flight marker has no idle marker
InFlightShipNotIdle ==
    \A i, j \in 1..Len(markers) :
        markers[i].kind = "flight" /\ markers[j].kind = "idle" =>
            markers[i].ship # markers[j].ship

\* no ship has two markers of whatever kind
OneMarkerPerShip ==
    \A i \in 1..Len(markers) : Cardinality(MarkersOf(markers[i].ship)) = 1

\* C26: in one pass of renderOverlay every ship gets at most one marker; a
\* ship drawn in flight, by whichever of its keys the flight names it, is not
\* drawn again as idle.
C26_AtMostOneMarker == OneMarkerPerShip /\ InFlightShipNotIdle

-----------------------------------------------------------------------------
(* The contract snapshot document *)

\* the identifiers of the contracts of a list
IdentifiersOf(contractList) ==
    {normalizeContractIdentifier(contractList[i]) : i \in 1..Len(contractList)}

\* the step wrote the document without the cap dropping anything
WroteUncapped ==
    /\ snapshotDocument' # snapshotDocument
    /\ Len(lastMerge'.upserted) <= MAX_CONTRACT_SNAPSHOT_SIZE

\* C27: a contract in the snapshot document is lost only through the cap; a
\* write of one run keeps what the other, overlapping run has persisted.
C27_LostOnlyByCap ==
    [][ WroteUncapped =>
            IdentifiersOf(loadExistingSnapshot(snapshotDocument))
                \subseteq IdentifiersOf(loadExistingSnapshot(snapshotDocument')) ]_vars

\* no two entries of the list have the same identifier
DistinctIdentifiers(contractList) ==
    \A i, j \in 1..Len(contractList) :
        i # j => normalizeContractIdentifier(contractList[i])
                    # normalizeContractIdentifier(contractList[j])

\* the updates that name the contract
UpdatesOf(updates, id) ==
    {k \in 1..Len(updates) :
        updates[k] # NoContract /\ normalizeContractIdentifier(updates[k]) = id}

\* the updates that name the contract and carry the field
UpdatesWith(updates, id, field) ==
    {k \in UpdatesOf(updates, id) : field \in DOMAIN updates[k]}

Latest(indices) == CHOOSE k \in indices : \A other \in indices : other <= k

\* the entry at the place holds the fields of the existing entry and of the
\* updates that name it, each with the value of the latest update that has it
OverwrittenInPlace(merge, place, id) ==
    /\ DOMAIN merge.upserted[place] =
          DOMAIN merge.existingSnapshot[place]
              \cup UNION {DOMAIN merge.updates[k] : k \in UpdatesOf(merge.updates, id)}
    /\ \A field \in DOMAIN merge.upserted[place] :
          merge.upserted[place][field] =
              IF UpdatesWith(merge.updates, id, field) = {}
              THEN merge.existingSnapshot[place][field]
              ELSE merge.updates[Latest(UpdatesWith(merge.updates, id, field))][field]

\* the list before the cap: the existing entries in their places, then one
\* entry for each new identifier
MergedInPlace(merge) ==
    /\ DistinctIdentifiers(merge.upserted)
    /\ Len(merge.upserted) >= Len(merge.existingSnapshot)
    /\ \A place \in 1..Len(merge.existingSnapshot) :
          OverwrittenInPlace(merge, place,
                             normalizeContractIdentifier(merge.existingSnapshot[place]))
    /\ IdentifiersOf(merge.upserted) =
          IdentifiersOf(merge.existingSnapshot)
              \cup {normalizeContractIdentifier(merge.updates[k]) :
                        k \in {n \in 1..Len(merge.updates) :
                                  /\ merge.updates[n] # NoContract
                                  /\ Truthy(normalizeContractIdentifier(merge.updates[n]))}}

\* C28: the persisted snapshot never holds more than
\* MAX_CONTRACT_SNAPSHOT_SIZE entries nor two entries for one identifier; a
\* merge keeps each existing entry in its place and overwrites it with the
\* fields of the updates that carry its identifier, the update's value winning.
C28_CappedAndOverwrittenInPlace ==
    /\ Len(loadExistingSnapshot(snapshotDocument)) <= MAX_CONTRACT_SNAPSHOT_SIZE
    /\ DistinctIdentifiers(loadExistingSnapshot(snapshotDocument))
    /\ lastMerge # NoMerge => MergedInPlace(lastMerge)

\* a merge overwrote an existing entry in place and went over the cap
C28_Witness ==
    /\ lastMerge # NoMerge
    /\ Len(lastMerge.upserted) > MAX_CONTRACT_SNAPSHOT_SIZE
    /\ Len(loadExistingSnapshot(snapshotDocument)) = MAX_CONTRACT_SNAPSHOT_SIZE
    /\ \E place \in 1..Len(lastMerge.existingSnapshot) :
          /\ lastMerge.upserted[place] # lastMerge.existingSnapshot[place]
          /\ UpdatesOf(lastMerge.updates,
                       normalizeContractIdentifier(lastMerge.existingSnapshot[place])) # {}

\* the list without the positions dropped, in order
RECURSIVE Without(_, _, _)
Without(contractList, dropped, place) ==
    IF place > Len(contractList) THEN <<>>
    ELSE (IF place \in dropped THEN <<>> ELSE <<contractList[place]>>)
         \o Without(contractList, dropped, place + 1)

\* the entry at place d is older than the one at place k; without a
\* usable timestamp it is oldest, and of equal timestamps the earlier place
OlderThan(contractList, d, k) ==
    \/ resolveContractTimestampValue(contractList[d]) < resolveContractTimestampValue(contractList[k])
    \/ /\ resolveContractTimestampValue(contractList[d]) = resolveContractTimestampValue(contractList[k])
       /\ d < k

\* the positions the cap has to drop: as many as there is excess, each older
\* than every place kept
OldestPositions(contractList) ==
    CHOOSE dropped \in SUBSET (1..Len(contractList)) :
        /\ Cardinality(dropped) = Len(contractList) - MAX_CONTRACT_SNAPSHOT_SIZE
        /\ \A d \in dropped, k \in (1..Len(contractList)) \ dropped : OlderThan(contractList, d, k)

\* C29: over the cap, mergeContractsIntoSnapshot drops exactly the excess
\* entries with the smallest timestamps (none counts as oldest, of equal ones
\* the earlier place goes first): no dropped entry is newer than a kept
\* one, and the kept entries keep their order. Under the cap nothing is dropped.
C29_DropsOldestExcess ==
    lastMerge # NoMerge =>
        IF Len(lastMerge.upserted) <= MAX_CONTRACT_SNAPSHOT_SIZE
        THEN lastMerge.merged = lastMerge.upserted
        ELSE /\ \E dropped \in SUBSET (1..Len(lastMerge.upserted)) :
                  /\ Cardinality(dropped) =
                        Len(lastMerge.upserted) - MAX_CONTRACT_SNAPSHOT_SIZE
                  /\ \A d \in dropped, k \in (1..Len(lastMerge.upserted)) \ dropped :
                        OlderThan(lastMerge.upserted, d, k)
             /\ lastMerge.merged =
                   Without(lastMerge.upserted, OldestPositions(lastMerge.upserted), 1)

\* a merge that dropped two entries: one without usable timestamp, and one of
\* two with equal timestamps, a newer entry standing before them in the list
C29_Witness ==
    /\ lastMerge # NoMerge
    /\ Len(lastMerge.upserted) >= MAX_CONTRACT_SNAPSHOT_SIZE + 2
    /\ \E d \in OldestPositions(lastMerge.upserted) :
          resolveContractTimestampValue(lastMerge.upserted[d]) = MinusInfinity
    /\ \E d \in OldestPositions(lastMerge.upserted),
          k \in (1..Len(lastMerge.upserted)) \ OldestPositions(lastMerge.upserted) :
          /\ resolveContractTimestampValue(lastMerge.upserted[d])
                = resolveContractTimestampValue(lastMerge.upserted[k])
          /\ resolveContractTimestampValue(lastMerge.upserted[d]) # MinusInfinity
    /\ \E d \in OldestPositions(lastMerge.upserted),
          k \in (1..Len(lastMerge.upserted)) \ OldestPositions(lastMerge.upserted) : k < d

-----------------------------------------------------------------------------
(* AuthProvider: attempts to log in *)

\* the step is the end of a call of login that met the outcome
LoginEndedWith(kinds) ==
    /\ pendingLogin # NoLogin
    /\ pendingLogin' = NoLogin
    /\ lastAttempt'.outcome.kind \in kinds

\* the body of the response holds no token: none of the six token fields is a
\* string that is not blank, nor is the body such a string, nor does a value
\* of the object hold one
RECURSIVE HoldsToken(_)
HoldsToken(data) ==
    \/ data.kind = "string" /\ trim(data.text) # <<>>
    \/ /\ data.kind = "object"
       /\ IF \E i \in 1..Len(data.entries) :
                data.entries[i].key \in {TokenFields[k] : k \in 1..Len(TokenFields)}
                    /\ data.entries[i].value.kind = "string"
          THEN \E k \in 1..Len(TokenFields) :
                  /\ EntryOf(data.entries, TokenFields[k]).kind = "string"
                  /\ \A j \in 1..(k - 1) : EntryOf(data.entries, TokenFields[j]).kind # "string"
                  /\ trim(EntryOf(data.entries, TokenFields[k]).text) # <<>>
          ELSE \E i \in 1..Len(data.entries) : HoldsToken(data.entries[i].value)

\* the call of login that ends with the step has failed
LoginFails ==
    \/ LoginEndedWith({"network-error", "http-error"})
    \/ LoginEndedWith({"ok"}) /\ ~HoldsToken(lastAttempt'.outcome.payload)

\* the provider is unauthenticated, with the error of the attempt
SignedOutWithError ==
    /\ authToken' = Null
    /\ userName' = Null
    /\ authStrategy' = Null
    /\ localStorage' = NoStored
    /\ authError' # Null
    /\ lastAttempt'.thrown = authError'

\* an attempt ended with the step: a call of login settled, or
\* loginWithApiKey ran
AttemptEnded ==
    \/ pendingLogin # NoLogin /\ pendingLogin' = NoLogin
    \/ attempts' # attempts /\ pendingLogin' = NoLogin

\* C30: a call of login that fails (network error, HTTP error, no token in
\* the response) leaves authToken, userName and authStrategy null, the stored
\* keys removed and authError set to the error it throws; after every attempt,
\* whether it returns or throws, authLoading is false.
C30_FailedLoginSignsOut ==
    [][ /\ LoginFails => SignedOutWithError
        /\ AttemptEnded => authLoading' = FALSE ]_vars

\* a login that failed on a response without token, while a session was held
C30_Witness ==
    /\ lastAttempt # NoAttempt
    /\ lastAttempt.call = "login"
    /\ lastAttempt.outcome.kind = "ok"
    /\ lastAttempt.thrown # Null
    /\ lastAttempt.before # Null
    /\ authToken = Null
    /\ localStorage = NoStored
    /\ authError # Null
    /\ ~authLoading

=============================================================================
